---- MODULE Spec2Model ----
(***************************************************************************)
(* Banking data-quality audit and cleaning engine.                         *)
(*                                                                         *)
(* The model follows src/src/data_quality_standards.py (the eight checks,  *)
(* the runner, the aggregator and the cleaner), src/src/monitoring_audit.py *)
(* (audit orchestration and the database sink) and the load task of        *)
(* src/dags_or_jobs/banking_dq_dag.py.                                     *)
(*                                                                         *)
(* A DataFrame is a record [cols, rows]; rows is the ordered sequence of   *)
(* records [idx, v] where idx is the pandas index label of the row and v   *)
(* maps every column to a value.  Values are integers; NULL stands for     *)
(* None/NaN.  String literals of the source are encoded as the integers    *)
(* named after them.                                                       *)
(***************************************************************************)
EXTENDS Integers, Sequences, FiniteSets, TLC

\* ------------------------------------------------------------------------
\* Value encodings
\* ------------------------------------------------------------------------
NULL == 0

\* transaction_type
Internal_Transfer == 1
External_Transfer == 2
Bill_Payment == 3

\* authentication_method
PIN == 1
PIN_OTP == 2
PIN_OTP_Biometric == 3

\* currency
VND == 1
USD == 2

\* transaction.status
Completed == 1
Pending == 2

\* customer_device.status
Active == 1
Blocked == 2

\* customer_device.is_trusted (True / False)
IsTrue == 1
IsFalse == 2

\* customer_device.device_type
Mobile == 1

HIGH_VALUE_THRESHOLD == 10000000
DAILY_LIMIT_THRESHOLD == 20000000

STRONG_AUTH_METHODS == {PIN_OTP, PIN_OTP_Biometric}
TRANSFER_TYPES == {Internal_Transfer, External_Transfer, Bill_Payment}

\* ------------------------------------------------------------------------
\* Rule configuration
\* ------------------------------------------------------------------------
TABLES ==
    {"customer", "face_template", "bank_account", "customer_device",
     "transaction", "authentication_log"}

REQUIRED_FIELDS ==
    [customer |-> {"full_name", "date_of_birth", "phone_number", "id_passport_number",
                   "residential_address", "pin", "password"},
     bank_account |-> {"customer_id", "account_number", "account_type", "currency"},
     transaction |-> {"account_id", "transaction_type", "amount", "currency",
                      "authentication_method"},
     customer_device |-> {"device_identifier", "customer_id", "device_type"},
     face_template |-> {"customer_id", "encrypted_face_encoding"},
     authentication_log |-> {"customer_id", "device_identifier", "authentication_type",
                             "status"}]

UNIQUE_FIELDS ==
    [customer |-> {"phone_number", "email", "tax_identification_number",
                   "id_passport_number"},
     bank_account |-> {"account_number"},
     customer_device |-> {"device_identifier"},
     face_template |-> {"customer_id"},
     transaction |-> {"transaction_id"},
     authentication_log |-> {"log_id"}]

\* The relationships declared children first.
FOREIGN_KEY_RELATIONSHIPS_children_first ==
    << <<"authentication_log", "device_identifier", "customer_device",
         "device_identifier">>,
       <<"authentication_log", "transaction_id", "transaction", "transaction_id">>,
       <<"authentication_log", "customer_id", "customer", "customer_id">>,
       <<"transaction", "account_id", "bank_account", "account_id">>,
       <<"customer_device", "customer_id", "customer", "customer_id">>,
       <<"bank_account", "customer_id", "customer", "customer_id">>,
       <<"face_template", "customer_id", "customer", "customer_id">> >>

\* Each relationship is <<child_table, child_field, parent_table, parent_field>>.
FOREIGN_KEY_RELATIONSHIPS ==
    << <<"face_template", "customer_id", "customer", "customer_id">>,
       <<"bank_account", "customer_id", "customer", "customer_id">>,
       <<"customer_device", "customer_id", "customer", "customer_id">>,
       <<"transaction", "account_id", "bank_account", "account_id">>,
       <<"authentication_log", "customer_id", "customer", "customer_id">>,
       <<"authentication_log", "transaction_id", "transaction", "transaction_id">>,
       <<"authentication_log", "device_identifier", "customer_device",
         "device_identifier">> >>

\* The strings of the model and the patterns they match.  The codes stand for
\*   11 "0912345678"  12 "0812345678"  19 "12345"           (phone numbers)
\*   21 "an@mail.vn"  22 "binh@mail.vn" 29 "an.mail.vn"      (e-mail addresses)
\*   31 "280100000000000001" 32 "280100000000000002" 39 "1234" (account numbers)
\*   41 "IMEI:356938035643809" 42 "MAC:00-1B-44-11-3A-B7"
\*   43 "UUID:123e4567" 49 "356938035643809"                 (device identifiers)
\* No string of the model is a 12-digit CCCD number or a passport number.
REGEX_PATTERNS ==
    [cccd_number |-> {},
     passport_number |-> {},
     vietnamese_phone |-> {11, 12},
     email |-> {21, 22},
     bvbank_account |-> {31, 32},
     device_identifier |-> {41, 42, 43}]

\* <<table, field, pattern names>>
field_patterns ==
    { <<"customer", "id_passport_number", {"cccd_number", "passport_number"}>>,
      <<"customer", "phone_number", {"vietnamese_phone"}>>,
      <<"customer", "email", {"email"}>>,
      <<"bank_account", "account_number", {"bvbank_account"}>>,
      <<"customer_device", "device_identifier", {"device_identifier"}>> }

re_match(pattern_name, value) == value \in REGEX_PATTERNS[pattern_name]

CHECK_NAMES ==
    <<"null_missing_values", "uniqueness_constraints", "format_validation",
      "foreign_key_integrity", "high_value_transaction_auth",
      "device_verification_requirement", "daily_transaction_limit_auth",
      "transaction_type_constraints">>

\* ------------------------------------------------------------------------
\* Bounds of the explored inputs
\* ------------------------------------------------------------------------
\* Number of cells / tables / columns of the baseline snapshot that an input
\* snapshot may differ in.
MaxDirty == 1
\* Number of row identifiers in a failing-set map handed directly to the cleaner.
MaxFailed == 1
\* Number of rows of a column handed directly to the format check.
MaxFormatRows == 6

\* ------------------------------------------------------------------------
\* Generic helpers
\* ------------------------------------------------------------------------
Range(s) == {s[i] : i \in DOMAIN s}

Min(S) == CHOOSE x \in S : \A y \in S : x <= y

RECURSIVE sorted(_)
\* sorted(list(indices)) of a set of integers
sorted(S) == IF S = {} THEN <<>> ELSE <<Min(S)>> \o sorted(S \ {Min(S)})

RECURSIVE SumSeq(_)
SumSeq(s) == IF s = <<>> THEN 0 ELSE Head(s) + SumSeq(Tail(s))

RECURSIVE KSubsets(_, _)
\* the subsets of S with at most k elements
KSubsets(S, k) ==
    IF k = 0 THEN {{}}
    ELSE LET P == KSubsets(S, k - 1) IN P \cup {p \cup {x} : p \in P, x \in S}

EmptyMap == [t \in {} |-> <<>>]

\* ------------------------------------------------------------------------
\* DataFrame helpers (pandas operations used by the source)
\* ------------------------------------------------------------------------
isnull(x) == x = NULL
notna(x) == x # NULL

Row(i, vals) == [idx |-> i, v |-> vals]

\* len(df)
len(df) == Len(df.rows)

RECURSIVE select(_, _, _)
\* the rows from position k on whose mask entry is TRUE, in order
select(rows, mask, k) ==
    IF k > Len(rows) THEN <<>>
    ELSE (IF mask[k] THEN <<rows[k]>> ELSE <<>>) \o select(rows, mask, k + 1)

\* df[mask] for a boolean mask over the rows of df: index labels are kept
Filter(df, mask) == [cols |-> df.cols, rows |-> select(df.rows, mask, 1)]

\* df.index.tolist() as a set
Index(df) == {df.rows[i].idx : i \in DOMAIN df.rows}

\* set(df[field].dropna())
DropnaSet(df, field) == {df.rows[i].v[field] : i \in DOMAIN df.rows} \ {NULL}

\* df.reset_index(drop=True)
reset_index(df) ==
    [cols |-> df.cols,
     rows |-> [i \in DOMAIN df.rows |-> Row(i - 1, df.rows[i].v)]]

\* An identifier past the end of the table removes the last row.
drop_clamped(df, failed_indices) ==
    LET last == Len(df.rows) - 1
        keep(r) == /\ r.idx \notin Range(failed_indices)
                   /\ ~(r.idx = last /\ \E x \in Range(failed_indices) : x > last)
    IN  Filter(df, [i \in DOMAIN df.rows |-> keep(df.rows[i])])

\* df.drop(index=failed_indices, errors='ignore')
drop(df, failed_indices) ==
    LET keep(r) == r.idx \notin Range(failed_indices)
    IN  Filter(df, [i \in DOMAIN df.rows |-> keep(df.rows[i])])

\* ------------------------------------------------------------------------
\* Structural checks
\* ------------------------------------------------------------------------
\* Every check returns [check_type, status, issues, summary, failed_rows];
\* failed_rows maps a table to the set of failing index labels and has an entry
\* only for a table with at least one failing row.
Result(check_type, status, issues, summary, failed_rows) ==
    [check_type |-> check_type, status |-> status, issues |-> issues,
     summary |-> summary, failed_rows |-> failed_rows]

\* failed_rows as the checks build it: only tables with a non-empty failing set
FailedRowsOf(failed_indices) ==
    [t \in {u \in DOMAIN failed_indices : failed_indices[u] # {}} |-> failed_indices[t]]

\* As check_null_missing_values, but total_count counts the non-null rows only.
check_null_missing_values_non_null_total(data) ==
    LET tables == DOMAIN data \cap DOMAIN REQUIRED_FIELDS
        fields(t) == REQUIRED_FIELDS[t] \cap data[t].cols
        null_df(t, f) == LET null_mask(r) == isnull(r.v[f]) IN Filter(data[t], [i \in DOMAIN data[t].rows |-> null_mask(data[t].rows[i])])
        issue(t, f) == [table |-> t, field |-> f,
                        null_count |-> len(null_df(t, f)),
                        total_count |-> len(data[t]) - len(null_df(t, f)),
                        failed_row_indices |-> Index(null_df(t, f))]
        table_issues(t) == {issue(t, f) : f \in {g \in fields(t) : len(null_df(t, g)) > 0}}
        failed_indices(t) == UNION {Index(null_df(t, f)) : f \in fields(t)}
        issues == UNION {table_issues(t) : t \in tables}
    IN  Result("null_missing_values",
               IF issues # {} THEN "FAIL" ELSE "PASS",
               issues,
               [t \in tables |-> [total_records |-> len(data[t]),
                                  issues_count |-> Cardinality(table_issues(t)),
                                  failed_records |-> Cardinality(failed_indices(t))]],
               FailedRowsOf([t \in tables |-> failed_indices(t)]))

check_null_missing_values(data) ==
    LET tables == DOMAIN data \cap DOMAIN REQUIRED_FIELDS
        fields(t) == REQUIRED_FIELDS[t] \cap data[t].cols
        null_df(t, f) == LET null_mask(r) == isnull(r.v[f]) IN Filter(data[t], [i \in DOMAIN data[t].rows |-> null_mask(data[t].rows[i])])
        null_indices(t, f) == Index(null_df(t, f))
        issue(t, f) == [table |-> t, field |-> f,
                        null_count |-> len(null_df(t, f)),
                        total_count |-> len(data[t]),
                        failed_row_indices |-> null_indices(t, f)]
        table_issues(t) == {issue(t, f) : f \in {g \in fields(t) : len(null_df(t, g)) > 0}}
        failed_indices(t) == UNION {null_indices(t, f) : f \in fields(t)}
        issues == UNION {table_issues(t) : t \in tables}
    IN  Result("null_missing_values",
               IF issues # {} THEN "FAIL" ELSE "PASS",
               issues,
               [t \in tables |-> [total_records |-> len(data[t]),
                                  issues_count |-> Cardinality(table_issues(t)),
                                  failed_records |-> Cardinality(failed_indices(t))]],
               FailedRowsOf([t \in tables |-> failed_indices(t)]))

\* duplicated() with its default keep='first': the first occurrence is not marked
internal_duplicates_keep_first(non_null_df, field) ==
    {non_null_df.rows[i].idx :
        i \in {j \in DOMAIN non_null_df.rows :
                 \E k \in DOMAIN non_null_df.rows :
                    k < j /\ non_null_df.rows[k].v[field] = non_null_df.rows[j].v[field]}}

\* non_null_df[field].duplicated(keep=False): the index labels of the rows whose
\* value occurs in another row as well
internal_duplicates(non_null_df, field) ==
    {non_null_df.rows[i].idx :
        i \in {j \in DOMAIN non_null_df.rows :
                 \E k \in DOMAIN non_null_df.rows :
                    k # j /\ non_null_df.rows[k].v[field] = non_null_df.rows[j].v[field]}}

\* set(pd.read_sql("SELECT DISTINCT field FROM table WHERE field IS NOT NULL")[field])
existing_values(database, table_name, field) ==
    {database[table_name][i][field] :
        i \in {j \in DOMAIN database[table_name] : field \in DOMAIN database[table_name][j]}}
    \ {NULL}

\* One failed query ends the database comparison of every field.
query_succeeds_none_failed(failing_queries, table_name, field) == failing_queries = {}

\* The try block around pd.read_sql for one field completes.
query_succeeds(failing_queries, table_name, field) ==
    <<table_name, field>> \notin failing_queries

\* engine_up: create_database_connection() returns an engine;
\* failing_queries: the <<table, field>> whose pd.read_sql raises;
\* database: the rows already committed, per table.
check_uniqueness_constraints_with_database(data, check_database, engine_up, failing_queries, database) ==
    LET database_engine == check_database /\ engine_up
        tables == DOMAIN data \cap DOMAIN UNIQUE_FIELDS
        \* the body of the loop over the unique fields of a table
        field_check(t, f) ==
            LET df == data[t]
                non_null_df == Filter(df, [i \in DOMAIN df.rows |-> notna(df.rows[i].v[f])])
                internal_duplicate_indices == internal_duplicates(non_null_df, f)
                existing_set == existing_values(database, t, f)
                conflict_df ==
                    Filter(non_null_df,
                           [i \in DOMAIN non_null_df.rows |->
                               non_null_df.rows[i].v[f] \in existing_set])
                database_conflicts ==
                    IF database_engine /\ check_database /\ query_succeeds(failing_queries, t, f)
                    THEN Index(conflict_df)
                    ELSE {}
                all_failed_indices == internal_duplicate_indices \cup database_conflicts
            IN  [table |-> t, field |-> f,
                 total_non_null |-> len(non_null_df),
                 duplicate_count |-> Cardinality(all_failed_indices),
                 internal_duplicates |-> Cardinality(internal_duplicate_indices),
                 database_conflicts |-> Cardinality(database_conflicts),
                 failed_row_indices |-> all_failed_indices,
                 database_check_performed |-> database_engine /\ check_database]
        field_checks(t) == {field_check(t, f) : f \in UNIQUE_FIELDS[t] \cap data[t].cols}
        \* an issue is recorded for a field with failing rows only
        table_issues(t) == {x \in field_checks(t) : x.failed_row_indices # {}}
        failed_indices(t) == UNION {x.failed_row_indices : x \in field_checks(t)}
        issues == UNION {table_issues(t) : t \in tables}
    IN  Result("uniqueness_constraints",
               IF issues # {} THEN "FAIL" ELSE "PASS",
               issues,
               [t \in tables |->
                    [total_records |-> len(data[t]),
                     issues_count |-> Cardinality(table_issues(t)),
                     failed_records |-> Cardinality(failed_indices(t)),
                     database_check_available |-> database_engine /\ check_database]],
               FailedRowsOf([t \in tables |-> failed_indices(t)]))

\* is_valid of check_format_validation: the value matches one of the patterns
is_valid(pattern_names, value) ==
    \E pattern_name \in pattern_names :
        pattern_name \in DOMAIN REGEX_PATTERNS /\ re_match(pattern_name, value)

\* first n elements of a sequence
FirstN(s, n) == SubSeq(s, 1, IF Len(s) < n THEN Len(s) ELSE n)

SAMPLE_SIZE == 5

\* Only the rows whose values went into the sample are tracked.
format_failed_indices_sampled(invalid_df) ==
    {invalid_df.rows[i].idx : i \in DOMAIN FirstN(invalid_df.rows, SAMPLE_SIZE)}

\* invalid_indices: appended to for every invalid value, sampled or not
format_failed_indices(invalid_df) == Index(invalid_df)

check_format_validation(data) ==
    LET tables == DOMAIN data
        entries(t) == {e \in field_patterns : e[1] = t /\ e[2] \in data[t].cols}
        invalid_df(t, e) ==
            LET bad(r) == notna(r.v[e[2]]) /\ ~is_valid(e[3], r.v[e[2]])
            IN  Filter(data[t], [i \in DOMAIN data[t].rows |-> bad(data[t].rows[i])])
        non_null_df(t, e) == LET non_null_mask(r) == notna(r.v[e[2]])
                             IN  Filter(data[t], [i \in DOMAIN data[t].rows |-> non_null_mask(data[t].rows[i])])
        issue(t, e) ==
            [table |-> t, field |-> e[2],
             invalid_count |-> len(invalid_df(t, e)),
             total_count |-> len(non_null_df(t, e)),
             expected_patterns |-> e[3],
             sample_invalid |->
                FirstN([i \in DOMAIN invalid_df(t, e).rows |-> invalid_df(t, e).rows[i].v[e[2]]],
                      SAMPLE_SIZE),
             failed_row_indices |-> Index(invalid_df(t, e))]
        table_issues(t) == {issue(t, e) : e \in {x \in entries(t) : len(invalid_df(t, x)) > 0}}
        failed_indices(t) == UNION {format_failed_indices(invalid_df(t, e)) : e \in entries(t)}
        issues == UNION {table_issues(t) : t \in tables}
    IN  Result("format_validation",
               IF issues # {} THEN "FAIL" ELSE "PASS",
               issues,
               [t \in tables |-> [total_records |-> len(data[t]),
                                  issues_count |-> Cardinality(table_issues(t)),
                                  failed_records |-> Cardinality(failed_indices(t))]],
               FailedRowsOf([t \in tables |-> failed_indices(t)]))

\* The relationships check_foreign_key_integrity does not skip.
fk_checked(data) ==
    {k \in DOMAIN FOREIGN_KEY_RELATIONSHIPS :
        LET rel == FOREIGN_KEY_RELATIONSHIPS[k]
        IN  /\ rel[1] \in DOMAIN data
            /\ rel[3] \in DOMAIN data
            /\ rel[2] \in data[rel[1]].cols
            /\ rel[4] \in data[rel[3]].cols}

\* The non-null mask is left out: a null foreign key is an orphan too.
orphaned_mask_with_nulls(r, child_field, parent_values) ==
    r.v[child_field] \notin parent_values

\* child_non_null_mask and orphaned_mask for one child row
orphaned_mask(r, child_field, parent_values) ==
    notna(r.v[child_field]) /\ r.v[child_field] \notin parent_values

check_foreign_key_integrity(data) ==
    LET orphaned_df(k) ==
            LET rel == FOREIGN_KEY_RELATIONSHIPS[k]
                parent_values == DropnaSet(data[rel[3]], rel[4])
            IN  Filter(data[rel[1]], [i \in DOMAIN data[rel[1]].rows |-> orphaned_mask(data[rel[1]].rows[i], rel[2], parent_values)])
        failing == {k \in fk_checked(data) : len(orphaned_df(k)) > 0}
        issue(k) ==
            LET rel == FOREIGN_KEY_RELATIONSHIPS[k]
            IN  [child_table |-> rel[1], child_field |-> rel[2],
                 parent_table |-> rel[3], parent_field |-> rel[4],
                 orphaned_count |-> len(orphaned_df(k)),
                 failed_row_indices |-> Index(orphaned_df(k))]
        failed_indices(t) ==
            UNION {Index(orphaned_df(k)) :
                     k \in {j \in failing : FOREIGN_KEY_RELATIONSHIPS[j][1] = t}}
        failed_rows == FailedRowsOf([t \in DOMAIN data |-> failed_indices(t)])
        issues == {issue(k) : k \in failing}
    IN  Result("foreign_key_integrity",
               IF issues # {} THEN "FAIL" ELSE "PASS",
               issues,
               [total_relationships_checked |-> Len(FOREIGN_KEY_RELATIONSHIPS),
                failed_relationships |-> Cardinality(issues),
                total_failed_records |->
                    Cardinality(UNION {{<<t, i>> : i \in failed_rows[t]} :
                                         t \in DOMAIN failed_rows})],
               failed_rows)

\* ------------------------------------------------------------------------
\* Risk-based checks
\* ------------------------------------------------------------------------
\* An absent input fails the rule instead of skipping it.
Skip_as_fail(check_type) == Result(check_type, "FAIL", {}, [reason |-> "missing"], EmptyMap)

Skip(check_type) == Result(check_type, "SKIP", {}, [reason |-> "missing"], EmptyMap)

\* The threshold taken as exclusive: an amount equal to it is not high-value.
high_value_above_threshold(r) ==
    /\ r.v["amount"] > HIGH_VALUE_THRESHOLD
    /\ r.v["currency"] = VND
    /\ r.v["transaction_type"] \in TRANSFER_TYPES

\* high_value_mask
high_value(r) ==
    /\ r.v["amount"] >= HIGH_VALUE_THRESHOLD
    /\ r.v["currency"] = VND
    /\ r.v["transaction_type"] \in TRANSFER_TYPES

check_high_value_transaction_auth(data) ==
    IF "transaction" \notin DOMAIN data THEN Skip("high_value_transaction_auth")
    ELSE
      LET transaction_df == data["transaction"]
          high_value_transactions == Filter(transaction_df, [i \in DOMAIN transaction_df.rows |-> high_value(transaction_df.rows[i])])
          violation_mask(r) == r.v["authentication_method"] \notin STRONG_AUTH_METHODS
          violations == Filter(high_value_transactions, [i \in DOMAIN high_value_transactions.rows |-> violation_mask(high_value_transactions.rows[i])])
          violation_indices == Index(violations)
      IN  Result("high_value_transaction_auth",
                 IF violation_indices # {} THEN "FAIL" ELSE "PASS",
                 IF violation_indices # {}
                 THEN {[violation_count |-> len(violations),
                        total_high_value_transactions |-> len(high_value_transactions),
                        failed_row_indices |-> violation_indices]}
                 ELSE {},
                 [total_transactions |-> len(transaction_df),
                  high_value_transactions |-> len(high_value_transactions),
                  violations |-> len(violations)],
                 IF violation_indices # {}
                 THEN [t \in {"transaction"} |-> violation_indices]
                 ELSE EmptyMap)

\* The check raises KeyError when it reads a column the table lacks.
raises_high_value_transaction_auth(data) ==
    /\ "transaction" \in DOMAIN data
    /\ LET cols == data["transaction"].cols
       IN  \/ ~({"amount", "currency", "transaction_type", "authentication_method"}
                  \subseteq cols)
           \/ /\ "transaction_id" \notin cols
              /\ check_high_value_transaction_auth(data).status = "FAIL"

\* Every untrusted device, whatever its status.
untrusted_any_status(r) == r.v["is_trusted"] = IsFalse

\* (is_trusted == False) & (status == 'Active')
untrusted(r) == r.v["is_trusted"] = IsFalse /\ r.v["status"] = Active

check_device_verification_requirement(data) ==
    IF "customer_device" \notin DOMAIN data THEN Skip("device_verification_requirement")
    ELSE
      LET device_df == data["customer_device"]
          untrusted_devices == Filter(device_df, [i \in DOMAIN device_df.rows |-> untrusted(device_df.rows[i])])
          violation_indices == Index(untrusted_devices)
          is_active(r) == r.v["status"] = Active
          is_trusted(r) == r.v["is_trusted"] = IsTrue
      IN  Result("device_verification_requirement",
                 IF violation_indices # {} THEN "FAIL" ELSE "PASS",
                 IF violation_indices # {}
                 THEN {[untrusted_active_devices |-> len(untrusted_devices),
                        total_active_devices |-> len(Filter(device_df, [i \in DOMAIN device_df.rows |-> is_active(device_df.rows[i])])),
                        failed_row_indices |-> violation_indices]}
                 ELSE {},
                 [total_devices |-> len(device_df),
                  active_devices |-> len(Filter(device_df, [i \in DOMAIN device_df.rows |-> is_active(device_df.rows[i])])),
                  trusted_devices |-> len(Filter(device_df, [i \in DOMAIN device_df.rows |-> is_trusted(device_df.rows[i])])),
                  untrusted_active_devices |-> len(untrusted_devices)],
                 IF violation_indices # {}
                 THEN [t \in {"customer_device"} |-> violation_indices]
                 ELSE EmptyMap)

raises_device_verification_requirement(data) ==
    /\ "customer_device" \in DOMAIN data
    /\ LET cols == data["customer_device"].cols
       IN  \/ ~({"is_trusted", "status"} \subseteq cols)
           \/ /\ ~({"device_type", "device_identifier", "customer_id"} \subseteq cols)
              /\ check_device_verification_requirement(data).status = "FAIL"

RECURSIVE SumAmounts(_, _)
\* sum of the amounts of the merged rows in M; transaction_df holds the amounts
SumAmounts(M, transaction_df) ==
    IF M = {} THEN 0
    ELSE LET m == CHOOSE x \in M : TRUE
         IN  transaction_df.rows[m[1]].v["amount"] + SumAmounts(M \ {m}, transaction_df)

\* transaction_df.merge(account_df[['account_id', 'customer_id']], on='account_id',
\* how='left'): one row <<i, j, customer_id>> for each transaction row i and each
\* account row j with the same account_id (null keys match each other), and one
\* row <<i, 0, NULL>> for a transaction row that no account row matches.
merge_left(transaction_df, account_df) ==
    UNION {
        LET matches == {j \in DOMAIN account_df.rows :
                          account_df.rows[j].v["account_id"]
                            = transaction_df.rows[i].v["account_id"]}
        IN  IF matches = {} THEN {<<i, 0, NULL>>}
            ELSE {<<i, j, account_df.rows[j].v["customer_id"]>> : j \in matches}
        : i \in DOMAIN transaction_df.rows}

\* pd.to_datetime(created_at).dt.date: a timestamp is 100 * day + time of day,
\* and a null timestamp has a null date
to_date(created_at) == created_at \div 100

\* Any authentication method at all counts as strong.
has_strong_auth_any_method(auth_methods) == auth_methods # {}

\* any(method in STRONG_AUTH_METHODS for method in auth_methods if method)
has_strong_auth(auth_methods) ==
    \E method \in auth_methods : method \in STRONG_AUTH_METHODS

check_daily_transaction_limit_auth(data) ==
    IF "transaction" \notin DOMAIN data \/ "bank_account" \notin DOMAIN data
    THEN Skip("daily_transaction_limit_auth")
    ELSE
      LET transaction_df == data["transaction"]
          account_df == data["bank_account"]
          transaction_with_customer == merge_left(transaction_df, account_df)
          tv(m) == transaction_df.rows[m[1]].v
          vnd_transactions ==
              {m \in transaction_with_customer :
                  /\ tv(m)["currency"] = VND
                  /\ tv(m)["status"] = Completed
                  /\ tv(m)["transaction_type"] \in TRANSFER_TYPES}
          \* groupby(['customer_id', 'transaction_date']) drops null keys
          transaction_date(m) == to_date(tv(m)["created_at"])
          grouped == {m \in vnd_transactions : notna(m[3]) /\ notna(transaction_date(m))}
          keys == {<<m[3], transaction_date(m)>> : m \in grouped}
          group(k) == {m \in grouped : m[3] = k[1] /\ transaction_date(m) = k[2]}
          amount(k) == SumAmounts(group(k), transaction_df)
          auth_methods(k) == {tv(m)["authentication_method"] : m \in group(k)} \ {NULL}
          high_daily_transactions == {k \in keys : amount(k) >= DAILY_LIMIT_THRESHOLD}
          violations ==
              {[customer_id |-> k[1], transaction_date |-> k[2],
                total_amount |-> amount(k),
                transaction_count |->
                    Cardinality({m \in group(k) : notna(tv(m)["transaction_id"])})] :
                 k \in {h \in high_daily_transactions : ~has_strong_auth(auth_methods(h))}}
          violation_count == Cardinality(violations)
      \* sample_violations is violations[:5]; a snapshot of the model has fewer
      \* than five customer-days, so the sample is the whole list
      IN  Result("daily_transaction_limit_auth",
                 IF violation_count > 0 THEN "FAIL" ELSE "PASS",
                 IF violation_count > 0
                 THEN {[violation_count |-> violation_count,
                        total_high_daily_volume_cases |-> Cardinality(high_daily_transactions),
                        sample_violations |-> violations]}
                 ELSE {},
                 [total_customer_days_analyzed |-> Cardinality(keys),
                  high_volume_days |-> Cardinality(high_daily_transactions),
                  violation_days |-> violation_count],
                 EmptyMap)

raises_daily_transaction_limit_auth(data) ==
    /\ "transaction" \in DOMAIN data
    /\ "bank_account" \in DOMAIN data
    /\ \/ ~({"account_id", "customer_id"} \subseteq data["bank_account"].cols)
       \/ ~({"account_id", "currency", "status", "transaction_type", "created_at",
             "amount", "authentication_method", "transaction_id"}
              \subseteq data["transaction"].cols)
       \/ "customer_id" \in data["transaction"].cols

\* row.get(field) followed by pd.isna: a missing column reads as None
\* Only an absent column counts as missing.
isna_get_absent_only(df, r, field) == field \notin df.cols

isna_get(df, r, field) == field \notin df.cols \/ isnull(r.v[field])

\* The violations check_transaction_type_constraints records for one row, in order.
row_violations(df, r) ==
    LET transaction_type == r.v["transaction_type"]
        no_recipient_account == isna_get(df, r, "recipient_account_number")
        no_recipient_bank_code == isna_get(df, r, "recipient_bank_code")
        no_service_provider_code == isna_get(df, r, "service_provider_code")
        no_bill_number == isna_get(df, r, "bill_number")
        v(kind) == [transaction_id |-> r.v["transaction_id"],
                    transaction_type |-> transaction_type, violation |-> kind]
    IN  IF transaction_type = Internal_Transfer
        THEN IF no_recipient_account \/ ~no_recipient_bank_code
             THEN <<v("internal")>> ELSE <<>>
        ELSE IF transaction_type = External_Transfer
        THEN IF no_recipient_account \/ no_recipient_bank_code
             THEN <<v("external")>> ELSE <<>>
        ELSE IF transaction_type = Bill_Payment
        THEN (IF ~no_recipient_account \/ ~no_recipient_bank_code
              THEN <<v("bill_recipient")>> ELSE <<>>)
             \o (IF no_service_provider_code \/ no_bill_number
                 THEN <<v("bill_provider")>> ELSE <<>>)
        ELSE <<>>

RECURSIVE all_violations(_, _)
\* the violations list after the rows from position k on have been visited
all_violations(df, k) ==
    IF k > Len(df.rows) THEN <<>>
    ELSE row_violations(df, df.rows[k]) \o all_violations(df, k + 1)

\* The rows named by the violations are recorded as failed rows.
transaction_type_failed_rows_tracked(transaction_df, violations) ==
    [t \in {"transaction"} |->
        {transaction_df.rows[i].idx : i \in {j \in DOMAIN transaction_df.rows :
            \E k \in DOMAIN violations :
                violations[k].transaction_id = transaction_df.rows[j].v["transaction_id"]}}]

\* results['failed_rows'] as returned: the dict of the initial results is
\* never assigned, whatever the violations
transaction_type_failed_rows(transaction_df, violations) == EmptyMap

\* The rows named by the violations are counted, each once.
count_violations_distinct_rows(violations) ==
    Cardinality({violations[k].transaction_id : k \in DOMAIN violations})

\* violation_count = len(violations)
count_violations(violations) == Len(violations)

check_transaction_type_constraints(data) ==
    IF "transaction" \notin DOMAIN data THEN Skip("transaction_type_constraints")
    ELSE
      LET transaction_df == data["transaction"]
          violations == all_violations(transaction_df, 1)
          violation_count == count_violations(violations)
          of_type(ty) == LET is_ty(r) == r.v["transaction_type"] = ty
                         IN  len(Filter(transaction_df, [i \in DOMAIN transaction_df.rows |-> is_ty(transaction_df.rows[i])]))
      IN  Result("transaction_type_constraints",
                 IF violation_count > 0 THEN "FAIL" ELSE "PASS",
                 IF violation_count > 0
                 THEN {[violation_count |-> violation_count,
                        total_transactions |-> len(transaction_df),
                        sample_violations |-> FirstN(violations, 10)]}
                 ELSE {},
                 [total_transactions |-> len(transaction_df),
                  internal_transfers |-> of_type(Internal_Transfer),
                  external_transfers |-> of_type(External_Transfer),
                  bill_payments |-> of_type(Bill_Payment),
                  constraint_violations |-> violation_count],
                 transaction_type_failed_rows(transaction_df, violations))

raises_transaction_type_constraints(data) ==
    /\ "transaction" \in DOMAIN data
    /\ LET cols == data["transaction"].cols
       IN  \/ "transaction_type" \notin cols
           \/ /\ "transaction_id" \notin cols
              /\ check_transaction_type_constraints(data).status = "FAIL"

\* ------------------------------------------------------------------------
\* Runner and aggregator
\* ------------------------------------------------------------------------
\* Some check raises: the dict literal of run_all_data_quality_checks has no
\* handler around the eight calls, so the exception leaves the function.
run_all_raises(data) ==
    \/ raises_high_value_transaction_auth(data)
    \/ raises_device_verification_requirement(data)
    \/ raises_daily_transaction_limit_auth(data)
    \/ raises_transaction_type_constraints(data)

\* The checks dict of run_all_data_quality_checks.
run_checks(data, engine_up, failing_queries, database) ==
    [null_missing_values |-> check_null_missing_values(data),
     uniqueness_constraints |->
        check_uniqueness_constraints_with_database(data, TRUE, engine_up,
                                                   failing_queries, database),
     format_validation |-> check_format_validation(data),
     foreign_key_integrity |-> check_foreign_key_integrity(data),
     high_value_transaction_auth |-> check_high_value_transaction_auth(data),
     device_verification_requirement |-> check_device_verification_requirement(data),
     daily_transaction_limit_auth |-> check_daily_transaction_limit_auth(data),
     transaction_type_constraints |-> check_transaction_type_constraints(data)]

\* failed_checks counted as "not PASS": a skipped check counts as failed too
count_status_not_pass(checks, status) ==
    IF status = "FAIL"
    THEN Cardinality({n \in DOMAIN checks : checks[n].status # "PASS"})
    ELSE Cardinality({n \in DOMAIN checks : checks[n].status = status})

\* sum(1 for result in checks.values() if result['status'] == status)
count_status(checks, status) ==
    Cardinality({n \in DOMAIN checks : checks[n].status = status})

overall_status_of(failed_checks) == IF failed_checks = 0 THEN "PASS" ELSE "FAIL"

\* The audit_summary run_all_data_quality_checks computes from the checks dict;
\* pass_rate is kept in hundredths of a percent.
summarize(checks, data) ==
    LET total_checks == Cardinality(DOMAIN checks)
        passed_checks == count_status(checks, "PASS")
        failed_checks == count_status(checks, "FAIL")
        skipped_checks == count_status(checks, "SKIP")
    IN  [overall_status |-> overall_status_of(failed_checks),
         total_checks |-> total_checks,
         passed_checks |-> passed_checks,
         failed_checks |-> failed_checks,
         skipped_checks |-> skipped_checks,
         pass_rate |-> (passed_checks * 10000) \div total_checks,
         data_tables_analyzed |-> DOMAIN data,
         total_records_analyzed |->
            Cardinality(UNION {{<<t, i>> : i \in DOMAIN data[t].rows} : t \in DOMAIN data})]

\* Defined when no check raises.
run_all_data_quality_checks(data, engine_up, failing_queries, database) ==
    LET checks == run_checks(data, engine_up, failing_queries, database)
    IN  [audit_summary |-> summarize(checks, data), check_results |-> checks]

RECURSIVE aggregate_loop(_, _, _)
\* The loop of aggregate_failed_rows from check k on; acc is failed_rows_by_table.
aggregate_loop(check_results, k, acc) ==
    IF k > Len(CHECK_NAMES) THEN acc
    ELSE
      LET check_result == check_results[CHECK_NAMES[k]]
          fr == check_result.failed_rows
          updated ==
            [t \in DOMAIN acc \cup DOMAIN fr |->
                (IF t \in DOMAIN acc THEN acc[t] ELSE {})
                \cup (IF t \in DOMAIN fr THEN fr[t] ELSE {})]
      IN  aggregate_loop(check_results, k + 1, updated)

RECURSIVE concat_loop(_, _, _)
concat_loop(check_results, k, acc) ==
    IF k > Len(CHECK_NAMES) THEN acc
    ELSE
      LET fr == check_results[CHECK_NAMES[k]].failed_rows
      IN  concat_loop(check_results, k + 1,
                      [t \in DOMAIN acc \cup DOMAIN fr |->
                          (IF t \in DOMAIN acc THEN acc[t] ELSE <<>>)
                          \o (IF t \in DOMAIN fr THEN sorted(fr[t]) ELSE <<>>)])

\* The failing rows of the checks concatenated (list.extend) instead of united.
aggregate_failed_rows_concat(check_results) == concat_loop(check_results, 1, EmptyMap)

\* table -> sorted list of failing index labels
aggregate_failed_rows(check_results) ==
    LET failed_rows_by_table == aggregate_loop(check_results, 1, [t \in {} |-> {}])
    IN  [t \in DOMAIN failed_rows_by_table |-> sorted(failed_rows_by_table[t])]

\* ------------------------------------------------------------------------
\* Cleaner
\* ------------------------------------------------------------------------
\* A null foreign key is not kept.
valid_mask_without_nulls(r, child_field, valid_parent_keys) ==
    r.v[child_field] \in valid_parent_keys

\* valid_mask for one child row: isna() | isin(valid_parent_keys)
valid_mask(r, child_field, valid_parent_keys) ==
    isnull(r.v[child_field]) \/ r.v[child_field] \in valid_parent_keys

RECURSIVE FkPass(_, _)
\* The loop of handle_foreign_key_dependencies from relationship k on.
FkPass(result_data, k) ==
    IF k > Len(FOREIGN_KEY_RELATIONSHIPS) THEN result_data
    ELSE
      LET rel == FOREIGN_KEY_RELATIONSHIPS[k]
          child_table == rel[1]
          child_field == rel[2]
          parent_table == rel[3]
          parent_field == rel[4]
      IN  IF child_table \notin DOMAIN result_data \/ parent_table \notin DOMAIN result_data
          THEN FkPass(result_data, k + 1)
          ELSE IF parent_field \notin result_data[parent_table].cols
          THEN FkPass(result_data, k + 1)
          ELSE IF child_field \notin result_data[child_table].cols
          THEN FkPass(result_data, k + 1)
          ELSE
            LET valid_parent_keys == DropnaSet(result_data[parent_table], parent_field)
                kept == reset_index(Filter(result_data[child_table], [i \in DOMAIN result_data[child_table].rows |-> valid_mask(result_data[child_table].rows[i], child_field, valid_parent_keys)]))
            IN  FkPass([result_data EXCEPT ![child_table] = kept], k + 1)

RECURSIVE FkPassStale(_, _, _)
\* As FkPass, but the valid parent keys are read from the tables handed to the
\* pass (cleaned_data) instead of the tables as filtered so far (result_data).
FkPassStale(result_data, cleaned_data, k) ==
    IF k > Len(FOREIGN_KEY_RELATIONSHIPS) THEN result_data
    ELSE
      LET rel == FOREIGN_KEY_RELATIONSHIPS[k]
      IN  IF \/ rel[1] \notin DOMAIN result_data
             \/ rel[3] \notin DOMAIN result_data
             \/ rel[4] \notin result_data[rel[3]].cols
             \/ rel[2] \notin result_data[rel[1]].cols
          THEN FkPassStale(result_data, cleaned_data, k + 1)
          ELSE
            LET valid_parent_keys == DropnaSet(cleaned_data[rel[3]], rel[4])
                kept == reset_index(Filter(result_data[rel[1]], [i \in DOMAIN result_data[rel[1]].rows |-> valid_mask(result_data[rel[1]].rows[i], rel[2], valid_parent_keys)]))
            IN  FkPassStale([result_data EXCEPT ![rel[1]] = kept], cleaned_data, k + 1)

\* No cascade: the tables leave as step 1 made them.
handle_foreign_key_dependencies_skipped(cleaned_data) == cleaned_data

handle_foreign_key_dependencies_stale(cleaned_data) ==
    FkPassStale(cleaned_data, cleaned_data, 1)

handle_foreign_key_dependencies(cleaned_data) == FkPass(cleaned_data, 1)

\* The failed rows are dropped and the index is left as it is.
clean_table_without_reset(df, table_name, failed_rows_by_table) ==
    IF table_name \in DOMAIN failed_rows_by_table
    THEN drop(df, failed_rows_by_table[table_name])
    ELSE df

\* Step 1 of clean_dataframes_by_failed_rows for one table.
clean_table(df, table_name, failed_rows_by_table) ==
    IF table_name \in DOMAIN failed_rows_by_table
    THEN reset_index(drop(df, failed_rows_by_table[table_name]))
    ELSE df

\* The failed rows are dropped from the frames of the snapshot themselves
\* (drop(..., inplace=True)).
snapshot_after_cleaning_in_place(data, failed_rows_by_table) ==
    [t \in DOMAIN data |->
        IF t \in DOMAIN failed_rows_by_table
        THEN drop(data[t], failed_rows_by_table[t]) ELSE data[t]]

\* The frames of data_dict as clean_dataframes_by_failed_rows leaves them:
\* df.drop(...).reset_index(drop=True) and df.copy() build new frames, the
\* loop and the cascade assign to the keys of cleaned_data and result_data
\* only, and no statement writes into a frame it was handed.
snapshot_after_cleaning(data, failed_rows_by_table) == data

\* Returns [cleaned_data, cleaning_summary].
clean_dataframes_by_failed_rows(data, failed_rows_by_table) ==
    LET step1 == [t \in DOMAIN data |-> clean_table(data[t], t, failed_rows_by_table)]
        removed_count(t) == IF t \in DOMAIN failed_rows_by_table
                            THEN Len(failed_rows_by_table[t]) ELSE 0
        after_fk == handle_foreign_key_dependencies(step1)
    IN  [cleaned_data |-> after_fk,
         cleaning_summary |->
            [t \in DOMAIN data |->
                [original_count |-> len(data[t]),
                 removed_count |-> removed_count(t),
                 final_count |-> len(step1[t]),
                 final_count_after_fk_cleanup |-> len(after_fk[t]),
                 total_removed |-> removed_count(t)
                                   + (len(step1[t]) - len(after_fk[t]))]]]

\* ------------------------------------------------------------------------
\* Input snapshots
\* ------------------------------------------------------------------------
DF(cols, rows) == [cols |-> cols, rows |-> rows]

\* A snapshot that passes every check against an empty database.
Baseline ==
    [customer |->
        DF({"customer_id", "phone_number", "email"},
           << Row(0, [customer_id |-> 1, phone_number |-> 11, email |-> 21]),
              Row(1, [customer_id |-> 2, phone_number |-> 12, email |-> 22]) >>),
     face_template |->
        DF({"customer_id"},
           << Row(0, [customer_id |-> 1]) >>),
     bank_account |->
        DF({"account_id", "customer_id", "account_number"},
           << Row(0, [account_id |-> 1, customer_id |-> 1, account_number |-> 31]),
              Row(1, [account_id |-> 2, customer_id |-> 2, account_number |-> 32]) >>),
     customer_device |->
        DF({"device_identifier", "customer_id", "device_type", "is_trusted", "status"},
           << Row(0, [device_identifier |-> 41, customer_id |-> 1, device_type |-> Mobile,
                      is_trusted |-> IsTrue, status |-> Active]),
              Row(1, [device_identifier |-> 42, customer_id |-> 2, device_type |-> Mobile,
                      is_trusted |-> IsFalse, status |-> Blocked]) >>),
     transaction |->
        DF({"transaction_id", "account_id", "transaction_type", "amount", "currency",
            "authentication_method", "status", "created_at", "recipient_account_number",
            "recipient_bank_code", "service_provider_code", "bill_number"},
           << Row(0, [transaction_id |-> 1, account_id |-> 1,
                      transaction_type |-> Internal_Transfer, amount |-> 12000000,
                      currency |-> VND, authentication_method |-> PIN_OTP,
                      status |-> Completed, created_at |-> 101,
                      recipient_account_number |-> 32, recipient_bank_code |-> NULL,
                      service_provider_code |-> NULL, bill_number |-> NULL]),
              Row(1, [transaction_id |-> 2, account_id |-> 1,
                      transaction_type |-> Bill_Payment, amount |-> 9000000,
                      currency |-> VND, authentication_method |-> PIN,
                      status |-> Completed, created_at |-> 102,
                      recipient_account_number |-> NULL, recipient_bank_code |-> NULL,
                      service_provider_code |-> 61, bill_number |-> 71]),
              Row(2, [transaction_id |-> 3, account_id |-> 1,
                      transaction_type |-> External_Transfer, amount |-> 9000000,
                      currency |-> VND, authentication_method |-> PIN_OTP_Biometric,
                      status |-> Pending, created_at |-> 103,
                      recipient_account_number |-> 32, recipient_bank_code |-> 51,
                      service_provider_code |-> NULL, bill_number |-> NULL]) >>),
     authentication_log |->
        DF({"log_id", "customer_id", "transaction_id", "device_identifier"},
           << Row(0, [log_id |-> 1, customer_id |-> 1, transaction_id |-> 1,
                      device_identifier |-> 41]) >>)]

KeyVals == {NULL, 1, 2, 3}

\* The values a cell of column c may take in an input snapshot.
Dom(t, c) ==
    CASE c \in {"customer_id", "account_id", "transaction_id"} -> KeyVals
      [] c = "log_id" -> {NULL, 1, 2}
      [] c = "phone_number" -> {NULL, 11, 12, 19}
      [] c = "email" -> {NULL, 21, 22, 29}
      [] c = "account_number" -> {NULL, 31, 32, 39}
      [] c = "device_identifier" -> {NULL, 41, 42, 49}
      [] c = "device_type" -> {Mobile}
      [] c = "is_trusted" -> {NULL, IsTrue, IsFalse}
      [] c = "status" /\ t = "customer_device" -> {Active, Blocked}
      [] c = "status" /\ t = "transaction" -> {Completed, Pending}
      [] c = "transaction_type" ->
            {NULL, Internal_Transfer, External_Transfer, Bill_Payment}
      [] c = "amount" -> {NULL, 9000000, 10000000, 12000000}
      [] c = "currency" -> {NULL, VND, USD}
      [] c = "authentication_method" -> {NULL, PIN, PIN_OTP, PIN_OTP_Biometric}
      [] c = "created_at" -> {NULL, 102, 201}
      [] c = "recipient_account_number" -> {NULL, 32}
      [] c = "recipient_bank_code" -> {NULL, 51}
      [] c = "service_provider_code" -> {NULL, 61}
      [] c = "bill_number" -> {NULL, 71}

\* The columns that take part in a foreign-key relationship.
KeyColsOf(t) ==
    {FOREIGN_KEY_RELATIONSHIPS[k][2] :
        k \in {j \in DOMAIN FOREIGN_KEY_RELATIONSHIPS : FOREIGN_KEY_RELATIONSHIPS[j][1] = t}}
    \cup
    {FOREIGN_KEY_RELATIONSHIPS[k][4] :
        k \in {j \in DOMAIN FOREIGN_KEY_RELATIONSHIPS : FOREIGN_KEY_RELATIONSHIPS[j][3] = t}}

\* A difference from the baseline: <<"cell", t, i, c, v>> sets column c of row i
\* of table t to v, <<"drop_col", t, 0, c, 0>> leaves column c out of table t,
\* <<"drop_table", t, 0, "", 0>> leaves table t out of the snapshot.
CellFaults(colsOf) ==
    UNION { UNION { UNION { { <<"cell", t, i, c, v>> :
                                v \in Dom(t, c) \ {Baseline[t].rows[i].v[c]} } :
                            c \in colsOf[t] \cap Baseline[t].cols } :
                    i \in DOMAIN Baseline[t].rows } :
            t \in TABLES }

ColFaults(colsOf) ==
    UNION { { <<"drop_col", t, 0, c, 0>> : c \in colsOf[t] \cap Baseline[t].cols } :
            t \in TABLES }

TableFaults == { <<"drop_table", t, 0, "", 0>> : t \in TABLES }

KeyCols == [t \in TABLES |-> KeyColsOf(t)]

AllCols == [t \in TABLES |-> Baseline[t].cols]

RECURSIVE ApplyFaults(_, _)
ApplyFaults(data, F) ==
    IF F = {} THEN data
    ELSE
      LET f == CHOOSE x \in F : TRUE
          d == ApplyFaults(data, F \ {f})
          t == f[2]
      IN  IF t \notin DOMAIN d THEN d
          ELSE IF f[1] = "drop_table" THEN [u \in DOMAIN d \ {t} |-> d[u]]
          ELSE IF f[4] \notin d[t].cols THEN d
          ELSE IF f[1] = "drop_col"
          THEN [d EXCEPT ![t] =
                  DF(d[t].cols \ {f[4]},
                     [i \in DOMAIN d[t].rows |->
                        Row(d[t].rows[i].idx,
                            [c \in d[t].cols \ {f[4]} |-> d[t].rows[i].v[c]])])]
          ELSE [d EXCEPT ![t].rows[f[3]].v[f[4]] = f[5]]

\* The snapshots within MaxDirty differences of the baseline.
Snapshots(faults) == {ApplyFaults(Baseline, F) : F \in KSubsets(faults, MaxDirty)}

\* The failing-set maps with at most MaxFailed identifiers; an identifier is a
\* row of the baseline table or, for customer, the first identifier past its
\* end (an identifier drop ignores).
FailingSetMaps ==
    LET ids == UNION { { <<t, i>> : i \in 0..(Len(Baseline[t].rows) - 1) } : t \in TABLES }
                 \cup { <<"customer", Len(Baseline["customer"].rows)>> }
    IN  { [t \in {p[1] : p \in P} |-> sorted({p[2] : p \in {q \in P : q[1] = t}})] :
            P \in KSubsets(ids, MaxFailed) }

\* ------------------------------------------------------------------------
\* Database sink
\* ------------------------------------------------------------------------
\* The insertion order with the transactions and their logs first.
table_order_children_first ==
    <<"transaction", "authentication_log", "customer", "face_template", "bank_account",
      "customer_device">>

table_order ==
    <<"customer", "face_template", "bank_account", "customer_device", "transaction",
      "authentication_log">>

\* The source columns map_columns_to_database carries over, per table.
column_mappings ==
    [customer |->
        {"customer_id", "full_name", "gender", "date_of_birth", "phone_number", "email",
         "tax_identification_number", "id_passport_number", "issue_date", "expiry_date",
         "issuing_authority", "is_resident", "occupation", "position", "work_address",
         "residential_address", "contact_address", "pin", "password", "risk_rating",
         "risk_score", "customer_type", "monthly_income", "created_at", "updated_at",
         "status", "kyc_completed_at", "last_login_at", "failed_login_attempts",
         "account_locked_until", "password_last_changed", "sms_notification_enabled",
         "email_notification_enabled"},
     face_template |->
        {"template_id", "customer_id", "encrypted_face_encoding", "created_at",
         "last_used_at"},
     bank_account |->
        {"account_id", "customer_id", "account_number", "account_type", "currency",
         "available_balance", "current_balance", "hold_amount", "daily_transfer_limit",
         "daily_online_payment_limit", "is_primary", "status",
         "is_online_payment_enabled", "interest_rate", "last_transaction_at", "open_at",
         "updated_at"},
     customer_device |->
        {"device_identifier", "customer_id", "device_type", "device_name", "is_trusted",
         "status", "first_seen_at", "last_used_at"},
     transaction |->
        {"transaction_id", "account_id", "transaction_type", "amount", "currency", "fee",
         "status", "note", "authentication_method", "recipient_account_number",
         "recipient_bank_code", "recipient_name", "service_provider_code", "bill_number",
         "is_fraud", "fraud_score", "created_at", "completed_at"},
     authentication_log |->
        {"log_id", "customer_id", "device_identifier", "authentication_type",
         "transaction_id", "ip_address", "status", "failure_reason", "otp_sent_to",
         "biometric_score", "attempt_count", "session_id", "created_at"}]

\* The rows of df restricted to the mapped columns, in order (no table of the
\* model has the boolean authentication_log.status that is rewritten).
map_columns_to_database(df, df_key) ==
    LET available_columns == df.cols \cap column_mappings[df_key]
    IN  [i \in DOMAIN df.rows |-> [c \in available_columns |-> df.rows[i].v[c]]]

RECURSIVE save_loop(_, _, _, _)
\* The loop of save_clean_data_to_database from table k on; the to_sql of table
\* number fail_at raises (0: none does).  Returns [ok, written].
save_loop(clean_data_dict, k, fail_at, written) ==
    IF k > Len(table_order) THEN [ok |-> TRUE, written |-> written]
    ELSE
      LET df_key == table_order[k]
      IN  IF df_key \notin DOMAIN clean_data_dict
          THEN save_loop(clean_data_dict, k + 1, fail_at, written)
          ELSE IF k = fail_at THEN [ok |-> FALSE, written |-> written]
          ELSE save_loop(clean_data_dict, k + 1, fail_at,
                         [written EXCEPT ![df_key] =
                            @ \o map_columns_to_database(clean_data_dict[df_key], df_key)])

NothingWritten == [t \in TABLES |-> <<>>]

save_clean_data_to_database(clean_data_dict, engine_up, fail_at) ==
    IF ~engine_up THEN [ok |-> FALSE, written |-> NothingWritten]
    ELSE save_loop(clean_data_dict, 1, fail_at, NothingWritten)

\* Returns [status, written].
save_data_only(clean_data, engine_up, fail_at) ==
    LET total_records ==
            Cardinality(UNION {{<<t, i>> : i \in DOMAIN clean_data[t].rows} :
                                 t \in DOMAIN clean_data})
        saved == save_clean_data_to_database(clean_data, engine_up, fail_at)
    IN  IF total_records = 0 THEN [status |-> "NO_CLEAN_DATA", written |-> NothingWritten]
        ELSE [status |-> IF saved.ok THEN "SUCCESS" ELSE "FAILED", written |-> saved.written]

\* ------------------------------------------------------------------------
\* Orchestration
\* ------------------------------------------------------------------------
expected_tables ==
    {"customer", "face_template", "bank_account", "customer_device", "transaction",
     "authentication_log"}

validate_data_structure(data) == [t \in DOMAIN data \cap expected_tables |-> data[t]]

\* The result run_audit_with_reports returns from its except branch.
ErrorResult == [audit_summary |-> [overall_status |-> "ERROR"], check_results |-> EmptyMap]

NoResult == [audit_summary |-> EmptyMap, check_results |-> EmptyMap]

\* ------------------------------------------------------------------------
\* State
\* ------------------------------------------------------------------------
VARIABLES
    pc,                    \* position of the run
    data_dict,             \* the input snapshot
    engine_up,             \* create_database_connection() returns an engine
    failing_queries,       \* the <<table, field>> whose uniqueness query raises
    database,              \* table -> rows committed before and during the run
    audit_results,         \* audit_summary and check_results of the run
    failed_rows_by_table,  \* the failing-set map handed to the cleaner
    cleaned_data,          \* result of clean_dataframes_by_failed_rows
    cleaning_summary,
    cleaned_again,         \* result of cleaning cleaned_data with an empty map
    save_status,           \* status returned by save_data_only
    written,               \* table -> rows the run wrote to the database
    task_state,            \* DAG task -> state of its task instance
    try_number,            \* DAG task -> attempts started
    xcom                   \* <<task, key>> -> value pushed by the task

vars == <<pc, data_dict, engine_up, failing_queries, database, audit_results,
          failed_rows_by_table, cleaned_data, cleaning_summary, cleaned_again,
          save_status, written, task_state, try_number, xcom>>

dag_vars == <<task_state, try_number, xcom>>

\* The tasks of the DAG downstream of the data generation, in dependency order.
DAG_TASKS == <<"quality_audit_task", "load_data_task", "evaluate_results_task">>

\* No DAG run: the functions are called directly.
OutsideDag ==
    /\ task_state = [t \in Range(DAG_TASKS) |-> "none"]
    /\ try_number = [t \in Range(DAG_TASKS) |-> 0]
    /\ xcom = EmptyMap

EmptyDB == [t \in TABLES |-> <<>>]

\* Rows committed by an earlier run.
PriorDB ==
    [EmptyDB EXCEPT
        !["customer"] = << [customer_id |-> 3, phone_number |-> 12, email |-> 22] >>,
        !["bank_account"] =
            << [account_id |-> 3, customer_id |-> 3, account_number |-> 32] >>]

AllFaults == CellFaults(AllCols) \cup ColFaults(AllCols) \cup TableFaults
KeyFaults == CellFaults(KeyCols) \cup ColFaults(KeyCols) \cup TableFaults

\* <<engine_up, failing_queries, database>>: the Oracle answers over an empty
\* database or over the rows of an earlier run, the query of customer.email
\* raises, or no connection is established.
OracleConfigs ==
    { <<TRUE, {}, EmptyDB>>,
      <<TRUE, {}, PriorDB>>,
      <<TRUE, {<<"customer", "email">>}, PriorDB>>,
      <<FALSE, {}, PriorDB>> }

\* A run of the pipeline on an input snapshot.
Init ==
    /\ pc = "start"
    /\ data_dict \in Snapshots(AllFaults)
    /\ \E config \in OracleConfigs :
          /\ engine_up = config[1]
          /\ failing_queries = config[2]
          /\ database = config[3]
    /\ audit_results = NoResult
    /\ failed_rows_by_table = EmptyMap
    /\ cleaned_data = EmptyMap
    /\ cleaning_summary = EmptyMap
    /\ cleaned_again = EmptyMap
    /\ save_status = ""
    /\ written = NothingWritten
    /\ OutsideDag

\* A direct call cleanDataset(snapshot, failingSets).
InitClean ==
    /\ pc = "aggregated"
    /\ data_dict \in Snapshots(KeyFaults)
    /\ failed_rows_by_table \in FailingSetMaps
    /\ engine_up = FALSE
    /\ failing_queries = {}
    /\ database = EmptyDB
    /\ audit_results = NoResult
    /\ cleaned_data = EmptyMap
    /\ cleaning_summary = EmptyMap
    /\ cleaned_again = EmptyMap
    /\ save_status = ""
    /\ written = NothingWritten
    /\ OutsideDag

\* run_audit_with_reports(data_dict): validation, then
\* run_comprehensive_data_cleaning (the checks, aggregate_failed_rows and
\* clean_dataframes_by_failed_rows); an exception ends the run in the except
\* branch.
RunAuditWithReports ==
    /\ pc = "start"
    /\ LET validated_data == validate_data_structure(data_dict)
       IN  IF DOMAIN data_dict = {} \/ run_all_raises(validated_data)
           THEN /\ audit_results' = ErrorResult
                /\ pc' = "error"
                /\ UNCHANGED <<data_dict, failed_rows_by_table, cleaned_data,
                               cleaning_summary>>
           ELSE /\ audit_results' =
                      run_all_data_quality_checks(validated_data, engine_up,
                                                  failing_queries, database)
                /\ failed_rows_by_table' = aggregate_failed_rows(audit_results'.check_results)
                /\ \E res \in {clean_dataframes_by_failed_rows(validated_data,
                                                                 failed_rows_by_table')} :
                      /\ cleaned_data' = res.cleaned_data
                      /\ cleaning_summary' = res.cleaning_summary
                /\ data_dict' = snapshot_after_cleaning(data_dict, failed_rows_by_table')
                /\ pc' = "cleaned"
    /\ UNCHANGED <<engine_up, failing_queries, database, cleaned_again,
                   save_status, written>>
    /\ UNCHANGED dag_vars

\* clean_dataframes_by_failed_rows(data_dict, failed_rows_by_table)
CleanDataframes ==
    /\ pc = "aggregated"
    /\ \E res \in {clean_dataframes_by_failed_rows(validate_data_structure(data_dict),
                                                     failed_rows_by_table)} :
          /\ cleaned_data' = res.cleaned_data
          /\ cleaning_summary' = res.cleaning_summary
    /\ data_dict' = snapshot_after_cleaning(data_dict, failed_rows_by_table)
    /\ pc' = "cleaned"
    /\ UNCHANGED <<engine_up, failing_queries, database, audit_results,
                   failed_rows_by_table, cleaned_again, save_status, written>>
    /\ UNCHANGED dag_vars

\* clean_dataframes_by_failed_rows(cleaned_data, {})
CleanAgain ==
    /\ pc = "cleaned"
    /\ cleaned_again' = clean_dataframes_by_failed_rows(cleaned_data, EmptyMap).cleaned_data
    /\ pc' = "cleaned_again"
    /\ UNCHANGED <<data_dict, engine_up, failing_queries, database, audit_results,
                   failed_rows_by_table, cleaned_data, cleaning_summary, save_status,
                   written>>
    /\ UNCHANGED dag_vars

\* save_data_only(cleaned_data): load_data_task of the DAG, or the tail of
\* run_comprehensive_audit in standalone mode.
SaveDataOnly ==
    /\ pc = "cleaned"
    /\ \E fail_at \in 0..Len(table_order) :
          /\ \E res \in {save_data_only(cleaned_data, engine_up, fail_at)} :
                /\ save_status' = res.status
                /\ written' = res.written
          /\ database' = [t \in TABLES |-> database[t] \o written'[t]]
    /\ pc' = "saved"
    /\ UNCHANGED <<data_dict, engine_up, failing_queries, audit_results,
                   failed_rows_by_table, cleaned_data, cleaning_summary, cleaned_again>>
    /\ UNCHANGED dag_vars

Next ==
    \/ RunAuditWithReports
    \/ SaveDataOnly

Spec == Init /\ [][Next]_vars

NextClean == CleanDataframes \/ CleanAgain

SpecClean == InitClean /\ [][NextClean]_vars

\* ------------------------------------------------------------------------
\* The eight rules evaluated one at a time, in any order
\* ------------------------------------------------------------------------
\* Differences from the baseline that make each rule fail, skip or raise.
RuleFaults ==
    { <<"cell", "customer", 1, "phone_number", NULL>>,
      <<"cell", "customer", 2, "email", 21>>,
      <<"cell", "customer", 1, "phone_number", 19>>,
      <<"cell", "bank_account", 2, "customer_id", 3>>,
      <<"cell", "transaction", 1, "authentication_method", PIN>>,
      <<"cell", "customer_device", 2, "status", Active>>,
      <<"cell", "transaction", 1, "recipient_account_number", NULL>>,
      <<"drop_table", "transaction", 0, "", 0>>,
      <<"drop_col", "customer_device", 0, "is_trusted", 0>> }

\* The call the checks dict makes for its key n.
check_of(n, data, engine, failing, db) ==
    CASE n = "null_missing_values" -> check_null_missing_values(data)
      [] n = "uniqueness_constraints" ->
            check_uniqueness_constraints_with_database(data, TRUE, engine, failing, db)
      [] n = "format_validation" -> check_format_validation(data)
      [] n = "foreign_key_integrity" -> check_foreign_key_integrity(data)
      [] n = "high_value_transaction_auth" -> check_high_value_transaction_auth(data)
      [] n = "device_verification_requirement" ->
            check_device_verification_requirement(data)
      [] n = "daily_transaction_limit_auth" -> check_daily_transaction_limit_auth(data)
      [] n = "transaction_type_constraints" -> check_transaction_type_constraints(data)

\* The call for key n raises.
check_raises(n, data) ==
    CASE n = "high_value_transaction_auth" -> raises_high_value_transaction_auth(data)
      [] n = "device_verification_requirement" ->
            raises_device_verification_requirement(data)
      [] n = "daily_transaction_limit_auth" -> raises_daily_transaction_limit_auth(data)
      [] n = "transaction_type_constraints" -> raises_transaction_type_constraints(data)
      [] OTHER -> FALSE

\* The rules write into one failed_rows dict: the result of rule n also
\* carries the failed rows of the rules that finished before it.
record_result_shared_failed_rows(checks, n, result) ==
    LET earlier(t) == UNION {FailedRowsOf(checks[m].failed_rows)[t] :
                               m \in {k \in DOMAIN checks :
                                         t \in DOMAIN checks[k].failed_rows}}
        own(t) == IF t \in DOMAIN result.failed_rows THEN result.failed_rows[t] ELSE {}
        shared == FailedRowsOf([t \in TABLES |-> earlier(t) \cup own(t)])
    IN  [m \in DOMAIN checks \cup {n} |->
            IF m = n THEN [result EXCEPT !.failed_rows = shared] ELSE checks[m]]

\* checks[n] = result: every rule builds its own results dict and returns it,
\* and the value goes under the rule's own key
record_result(checks, n, result) ==
    [m \in DOMAIN checks \cup {n} |-> IF m = n THEN result ELSE checks[m]]

InitRules ==
    /\ pc = "rules"
    /\ data_dict \in Snapshots(RuleFaults)
    /\ \E config \in OracleConfigs :
          /\ engine_up = config[1]
          /\ failing_queries = config[2]
          /\ database = config[3]
    /\ audit_results = NoResult
    /\ failed_rows_by_table = EmptyMap
    /\ cleaned_data = EmptyMap
    /\ cleaning_summary = EmptyMap
    /\ cleaned_again = EmptyMap
    /\ save_status = ""
    /\ written = NothingWritten
    /\ OutsideDag

\* One rule that has not run yet is evaluated on the snapshot; an exception
\* ends the audit.
EvaluateRule ==
    /\ pc = "rules"
    /\ \E n \in Range(CHECK_NAMES) \ DOMAIN audit_results.check_results :
          IF check_raises(n, data_dict)
          THEN /\ audit_results' = ErrorResult
               /\ pc' = "error"
          ELSE /\ audit_results' =
                     [audit_summary |-> EmptyMap,
                      check_results |->
                         record_result(audit_results.check_results, n,
                                       check_of(n, data_dict, engine_up,
                                                failing_queries, database))]
               /\ pc' = "rules"
    /\ UNCHANGED <<data_dict, engine_up, failing_queries, database,
                   failed_rows_by_table, cleaned_data, cleaning_summary, cleaned_again,
                   save_status, written>>
    /\ UNCHANGED dag_vars

\* All eight results are in: the summary and the aggregate are computed.
CompleteAudit ==
    /\ pc = "rules"
    /\ DOMAIN audit_results.check_results = Range(CHECK_NAMES)
    /\ audit_results' = [audit_summary |-> summarize(audit_results.check_results, data_dict),
                         check_results |-> audit_results.check_results]
    /\ failed_rows_by_table' = aggregate_failed_rows(audit_results.check_results)
    /\ pc' = "audited"
    /\ UNCHANGED <<data_dict, engine_up, failing_queries, database, cleaned_data,
                   cleaning_summary, cleaned_again, save_status, written>>
    /\ UNCHANGED dag_vars

NextRules == EvaluateRule \/ CompleteAudit

SpecRules == InitRules /\ [][NextRules]_vars

\* ------------------------------------------------------------------------
\* The format check on one column of up to MaxFormatRows values
\* ------------------------------------------------------------------------
\* Values no pattern accepts.
MalformedValues == {18, 19}

\* The values of a column checked against the patterns of entry e: null,
\* malformed, and one value a pattern accepts (where one exists).
FormatValues(e) ==
    LET accepted == UNION {REGEX_PATTERNS[p] : p \in e[3] \cap DOMAIN REGEX_PATTERNS}
    IN  {NULL} \cup MalformedValues \cup (IF accepted = {} THEN {} ELSE {Min(accepted)})

\* The frames of table e[1] with the one column e[2].
FormatFrames(e) ==
    {DF({e[2]}, [i \in DOMAIN values |-> Row(i - 1, [c \in {e[2]} |-> values[i]])]) :
        values \in UNION {[1..n -> FormatValues(e)] : n \in 0..MaxFormatRows}}

InitFormat ==
    /\ pc = "format"
    /\ \E e \in field_patterns : \E df \in FormatFrames(e) :
          data_dict = [t \in {e[1]} |-> df]
    /\ engine_up = FALSE
    /\ failing_queries = {}
    /\ database = EmptyDB
    /\ audit_results = NoResult
    /\ failed_rows_by_table = EmptyMap
    /\ cleaned_data = EmptyMap
    /\ cleaning_summary = EmptyMap
    /\ cleaned_again = EmptyMap
    /\ save_status = ""
    /\ written = NothingWritten
    /\ OutsideDag

\* check_format_validation(data_dict)
FormatValidation ==
    /\ pc = "format"
    /\ audit_results' = [audit_summary |-> EmptyMap,
                         check_results |->
                            [n \in {"format_validation"} |-> check_format_validation(data_dict)]]
    /\ pc' = "format_checked"
    /\ UNCHANGED <<data_dict, engine_up, failing_queries, database, failed_rows_by_table,
                   cleaned_data, cleaning_summary, cleaned_again, save_status, written>>
    /\ UNCHANGED dag_vars

NextFormat == FormatValidation

SpecFormat == InitFormat /\ [][NextFormat]_vars

\* ------------------------------------------------------------------------
\* The DAG: quality_audit_task >> load_data_task >> evaluate_results_task
\* ------------------------------------------------------------------------
\* retries of a task: default_args, overridden for load_data_task.
retries(task) == IF task = "load_data_task" THEN 3 ELSE 2

\* Pass-rate thresholds, in hundredths of a percent.
warning_threshold == 8000
critical_threshold == 6000

\* task_instance.xcom_push(key, value)
xcom_push(x, task, key, value) ==
    [k \in DOMAIN x \cup {<<task, key>>} |-> IF k = <<task, key>> THEN value ELSE x[k]]

\* task_instance.xcom_pull(task_ids, key) is None
pulls_none(x, task, key) == <<task, key>> \notin DOMAIN x

\* The state of a task instance whose attempt number tries raised.
after_exception(task, tries) == IF tries <= retries(task) THEN "up_for_retry" ELSE "failed"

\* The task before t in the dependency chain ("" for the first).
upstream(t) ==
    IF t = DAG_TASKS[1] THEN ""
    ELSE DAG_TASKS[(CHOOSE k \in DOMAIN DAG_TASKS : DAG_TASKS[k] = t) - 1]

\* run_data_quality_audit returns normally whatever run_audit_with_reports
\* returned.
audit_task_raises_never(results) == FALSE

\* run_data_quality_audit raises: audit_summary['pass_rate'] is missing from
\* the error result, and a result without cleaned data is refused.
audit_task_raises(results) ==
    \/ "pass_rate" \notin DOMAIN results.audit_summary
    \/ "cleaned_data" \notin DOMAIN results

\* sum(len(df) for df in cleaned_data.values())
total_records_of(clean_data) ==
    Cardinality(UNION {{<<t, i>> : i \in DOMAIN clean_data[t].rows} : t \in DOMAIN clean_data})

\* The dict load_clean_data_to_database returns.
load_results_of(status, total_clean) ==
    [status |-> status, records_saved |-> IF status = "SUCCESS" THEN total_clean ELSE 0]

\* The evaluation evaluate_audit_results computes.
evaluate_audit_results(results, load_results) ==
    LET audit_summary == results.audit_summary
        overall_status == audit_summary.overall_status
        pass_rate == audit_summary.pass_rate
        load_status == load_results.status
        level ==
            IF load_status = "FAILED" THEN "critical"
            ELSE IF load_status = "NO_CLEAN_DATA" THEN "critical"
            ELSE IF overall_status = "FAIL"
                 THEN IF pass_rate < critical_threshold THEN "critical"
                      ELSE IF pass_rate < warning_threshold THEN "warning"
                      ELSE "info"
            ELSE "none"
    IN  [overall_status |-> overall_status,
         pass_rate |-> pass_rate,
         load_status |-> load_status,
         records_loaded |-> load_results.records_saved,
         alert_level |-> level,
         action_required |-> level \in {"critical", "warning"}]

\* A DAG run whose generate_data_task has pushed the snapshot, or a
\* standalone call of run_comprehensive_audit on it.
InitDag ==
    /\ pc \in {"dag", "start"}
    /\ data_dict \in Snapshots(RuleFaults) \cup {EmptyMap}
    /\ \E config \in OracleConfigs :
          /\ engine_up = config[1]
          /\ failing_queries = config[2]
          /\ database = config[3]
    /\ audit_results = NoResult
    /\ failed_rows_by_table = EmptyMap
    /\ cleaned_data = EmptyMap
    /\ cleaning_summary = EmptyMap
    /\ cleaned_again = EmptyMap
    /\ save_status = ""
    /\ written = NothingWritten
    /\ task_state = [t \in Range(DAG_TASKS) |->
                        IF pc = "dag" /\ t = DAG_TASKS[1] THEN "scheduled" ELSE "none"]
    /\ try_number = [t \in Range(DAG_TASKS) |-> 0]
    /\ xcom = EmptyMap

\* The scheduler queues a task whose upstream task succeeded.
ScheduleTask ==
    /\ pc = "dag"
    /\ \E t \in Range(DAG_TASKS) \ {DAG_TASKS[1]} :
          /\ task_state[t] = "none"
          /\ task_state[upstream(t)] = "success"
          /\ task_state' = [task_state EXCEPT ![t] = "scheduled"]
    /\ UNCHANGED <<pc, data_dict, engine_up, failing_queries, database, audit_results,
                   failed_rows_by_table, cleaned_data, cleaning_summary, cleaned_again,
                   save_status, written, try_number, xcom>>

\* The scheduler never runs a task whose upstream task failed.
MarkUpstreamFailed ==
    /\ pc = "dag"
    /\ \E t \in Range(DAG_TASKS) \ {DAG_TASKS[1]} :
          /\ task_state[t] = "none"
          /\ task_state[upstream(t)] \in {"failed", "upstream_failed"}
          /\ task_state' = [task_state EXCEPT ![t] = "upstream_failed"]
    /\ UNCHANGED <<pc, data_dict, engine_up, failing_queries, database, audit_results,
                   failed_rows_by_table, cleaned_data, cleaning_summary, cleaned_again,
                   save_status, written, try_number, xcom>>

\* One attempt of quality_audit_task: run_data_quality_audit calls
\* run_audit_with_reports on the snapshot and pushes its results.
QualityAuditTask ==
    /\ pc = "dag"
    /\ task_state["quality_audit_task"] \in {"scheduled", "up_for_retry"}
    /\ try_number' = [try_number EXCEPT !["quality_audit_task"] = @ + 1]
    /\ LET validated_data == validate_data_structure(data_dict)
       IN  IF DOMAIN data_dict = {} \/ run_all_raises(validated_data)
           THEN /\ audit_results' = ErrorResult
                /\ UNCHANGED <<data_dict, failed_rows_by_table, cleaned_data,
                               cleaning_summary>>
           ELSE /\ audit_results' =
                      run_all_data_quality_checks(validated_data, engine_up,
                                                  failing_queries, database)
                /\ failed_rows_by_table' = aggregate_failed_rows(audit_results'.check_results)
                /\ \E res \in {clean_dataframes_by_failed_rows(validated_data,
                                                                 failed_rows_by_table')} :
                      /\ cleaned_data' = res.cleaned_data
                      /\ cleaning_summary' = res.cleaning_summary
                /\ data_dict' = snapshot_after_cleaning(data_dict, failed_rows_by_table')
    /\ \E returned \in {IF audit_results' = ErrorResult
                         THEN audit_results'
                         ELSE [audit_summary |-> audit_results'.audit_summary,
                               check_results |-> audit_results'.check_results,
                               cleaned_data |-> cleaned_data']} :
          IF audit_task_raises(returned)
          THEN /\ task_state' = [task_state EXCEPT !["quality_audit_task"] =
                                    after_exception("quality_audit_task",
                                                    try_number'["quality_audit_task"])]
               /\ UNCHANGED xcom
          ELSE /\ task_state' = [task_state EXCEPT !["quality_audit_task"] = "success"]
               /\ xcom' = IF "cleaned_data" \in DOMAIN returned
                          THEN xcom_push(xcom_push(xcom, "quality_audit_task",
                                                   "audit_results", audit_results'),
                                         "quality_audit_task", "cleaned_data",
                                         returned.cleaned_data)
                          ELSE xcom
    /\ UNCHANGED <<pc, engine_up, failing_queries, database, cleaned_again, save_status,
                   written>>

\* One attempt of load_data_task: load_clean_data_to_database pulls the cleaned
\* data and returns what save_data_only returns.
LoadDataTask ==
    /\ pc = "dag"
    /\ task_state["load_data_task"] \in {"scheduled", "up_for_retry"}
    /\ try_number' = [try_number EXCEPT !["load_data_task"] = @ + 1]
    /\ IF pulls_none(xcom, "quality_audit_task", "cleaned_data")
       THEN /\ task_state' = [task_state EXCEPT !["load_data_task"] =
                                 after_exception("load_data_task",
                                                 try_number'["load_data_task"])]
            /\ UNCHANGED <<database, save_status, written, xcom>>
       ELSE \E fail_at \in 0..Len(table_order) :
              \E res \in {save_data_only(xcom[<<"quality_audit_task", "cleaned_data">>],
                                         engine_up, fail_at)} :
                /\ save_status' = res.status
                /\ written' = res.written
                /\ database' = [t \in TABLES |-> database[t] \o res.written[t]]
                /\ xcom' = xcom_push(xcom, "load_data_task", "return_value",
                                     load_results_of(res.status,
                                         total_records_of(
                                             xcom[<<"quality_audit_task", "cleaned_data">>])))
                /\ task_state' = [task_state EXCEPT !["load_data_task"] = "success"]
    /\ UNCHANGED <<pc, data_dict, engine_up, failing_queries, audit_results,
                   failed_rows_by_table, cleaned_data, cleaning_summary, cleaned_again>>

\* One attempt of evaluate_results_task.
EvaluateResultsTask ==
    /\ pc = "dag"
    /\ task_state["evaluate_results_task"] \in {"scheduled", "up_for_retry"}
    /\ try_number' = [try_number EXCEPT !["evaluate_results_task"] = @ + 1]
    /\ IF \/ pulls_none(xcom, "quality_audit_task", "audit_results")
          \/ pulls_none(xcom, "load_data_task", "return_value")
       THEN /\ task_state' = [task_state EXCEPT !["evaluate_results_task"] =
                                 after_exception("evaluate_results_task",
                                                 try_number'["evaluate_results_task"])]
            /\ UNCHANGED xcom
       ELSE /\ xcom' = xcom_push(xcom, "evaluate_results_task", "evaluation",
                                 evaluate_audit_results(
                                     xcom[<<"quality_audit_task", "audit_results">>],
                                     xcom[<<"load_data_task", "return_value">>]))
            /\ task_state' = [task_state EXCEPT !["evaluate_results_task"] = "success"]
    /\ UNCHANGED <<pc, data_dict, engine_up, failing_queries, database, audit_results,
                   failed_rows_by_table, cleaned_data, cleaning_summary, cleaned_again,
                   save_status, written>>

NextDag ==
    \/ QualityAuditTask
    \/ LoadDataTask
    \/ EvaluateResultsTask
    \/ ScheduleTask
    \/ MarkUpstreamFailed
    \/ RunAuditWithReports
    \/ SaveDataOnly

SpecDag == InitDag /\ [][NextDag]_vars

\* ------------------------------------------------------------------------
\* Properties
\* ------------------------------------------------------------------------
\* run_audit_with_reports has returned its report and the cleaned tables, and
\* nothing has been written yet.
Audited == pc = "cleaned"
Cleaned == pc \in {"cleaned", "cleaned_again", "saved"}

the_checks == audit_results.check_results

\* The failing rows a check reports for a table.
FailedOf(check_result, t) ==
    IF t \in DOMAIN check_result.failed_rows THEN check_result.failed_rows[t] ELSE {}

\* Relationship k holds in data: every child row has a null foreign key or the
\* key of some parent row.
FkSatisfied(data, k) ==
    LET rel == FOREIGN_KEY_RELATIONSHIPS[k]
    IN  (/\ rel[1] \in DOMAIN data
         /\ rel[3] \in DOMAIN data
         /\ rel[2] \in data[rel[1]].cols
         /\ rel[4] \in data[rel[3]].cols)
        => \A i \in DOMAIN data[rel[1]].rows :
              \/ data[rel[1]].rows[i].v[rel[2]] = NULL
              \/ \E j \in DOMAIN data[rel[3]].rows :
                    data[rel[3]].rows[j].v[rel[4]] = data[rel[1]].rows[i].v[rel[2]]

CascadeRemoved(t) ==
    /\ t \in DOMAIN cleaning_summary
    /\ cleaning_summary[t].final_count_after_fk_cleanup < cleaning_summary[t].final_count

\* C1: after clean_dataframes_by_failed_rows, for each of the seven declared
\* relationships whose tables and fields are present, every surviving child row
\* has a null foreign key or the key of a surviving parent row, for every input
\* snapshot and every failing-set map.
C1_ForeignKeyPostcondition ==
    Cleaned => \A k \in 1..7 : FkSatisfied(cleaned_data, k)

\* A customer is removed directly and the cascade runs down the chain
\* customer -> bank_account -> transaction -> authentication_log.
C1_Witness ==
    /\ pc = "cleaned"
    /\ "customer" \in DOMAIN failed_rows_by_table
    /\ CascadeRemoved("bank_account")
    /\ CascadeRemoved("transaction")
    /\ CascadeRemoved("authentication_log")

\* C2: cleaning the cleaned tables again with an empty failing-set map returns
\* tables equal to the first cleaned tables (same rows, order and identifiers).
C2_CleaningIdempotent ==
    pc = "cleaned_again" => cleaned_again = cleaned_data

\* The first cleaning removed rows directly and in the cascade.
C2_Witness ==
    /\ pc = "cleaned_again"
    /\ \E t \in DOMAIN cleaning_summary :
          cleaning_summary[t].final_count < cleaning_summary[t].original_count
    /\ \E t \in DOMAIN cleaning_summary : CascadeRemoved(t)

AggregateOf(t) ==
    IF t \in DOMAIN failed_rows_by_table THEN failed_rows_by_table[t] ELSE <<>>

SumOfFailingSets(t) ==
    SumSeq([k \in DOMAIN CHECK_NAMES |-> Cardinality(FailedOf(the_checks[CHECK_NAMES[k]], t))])

FlaggedTwice(t) ==
    \E m, n \in DOMAIN CHECK_NAMES :
        /\ m < n
        /\ FailedOf(the_checks[CHECK_NAMES[m]], t)
             \cap FailedOf(the_checks[CHECK_NAMES[n]], t) # {}

\* C3: for every table the aggregate is the duplicate-free union of the checks'
\* failing sets: an identifier is in it iff some check flagged it, its size is
\* at most the sum of the sizes of the checks' failing sets, and equal to it iff
\* no row is flagged by more than one check.
C3_AggregateIsUnion ==
    Audited =>
      \A t \in TABLES :
        LET agg == AggregateOf(t)
        IN  /\ \A i, j \in DOMAIN agg : i # j => agg[i] # agg[j]
            /\ Range(agg) = UNION {FailedOf(the_checks[n], t) : n \in Range(CHECK_NAMES)}
            /\ Len(agg) <= SumOfFailingSets(t)
            /\ (Len(agg) = SumOfFailingSets(t)) <=> ~FlaggedTwice(t)

\* A row is flagged by two checks and counted once.
C3_Witness ==
    /\ pc = "cleaned"
    /\ \E t \in TABLES : FlaggedTwice(t) /\ Len(AggregateOf(t)) < SumOfFailingSets(t)

\* Row i of table t has a null in a required field that is a column of t.
HasRequiredNull(t, i) ==
    \E f \in REQUIRED_FIELDS[t] \cap data_dict[t].cols : data_dict[t].rows[i].v[f] = NULL

NullRows(t, f) == {i \in DOMAIN data_dict[t].rows : data_dict[t].rows[i].v[f] = NULL}

RequiredTables == DOMAIN data_dict \cap DOMAIN REQUIRED_FIELDS

\* C4: a row is in the required-field check's failing set iff a required field
\* that is a column of its table is null in it; the status is FAIL iff there is
\* such a row; each issue reports the number of null rows of its field and the
\* number of rows of its table.
C4_RequiredFieldCheck ==
    Audited =>
      LET res == the_checks["null_missing_values"]
      IN  /\ \A t \in RequiredTables : \A i \in DOMAIN data_dict[t].rows :
                (data_dict[t].rows[i].idx \in FailedOf(res, t)) <=> HasRequiredNull(t, i)
          /\ (res.status = "FAIL") <=>
                \E t \in RequiredTables : \E i \in DOMAIN data_dict[t].rows :
                    HasRequiredNull(t, i)
          /\ \A t \in RequiredTables : \A f \in REQUIRED_FIELDS[t] \cap data_dict[t].cols :
                LET reported == {x \in res.issues : x.table = t /\ x.field = f}
                IN  /\ NullRows(t, f) # {} => reported # {}
                    /\ \A x \in reported :
                          /\ x.null_count = Cardinality(NullRows(t, f))
                          /\ x.total_count = Len(data_dict[t].rows)

\* The check failed on a required field with a null.
C4_Witness ==
    /\ pc = "cleaned"
    /\ the_checks["null_missing_values"].status = "FAIL"
    /\ \E x \in the_checks["null_missing_values"].issues :
          x.null_count >= 1 /\ x.total_count > x.null_count

UniquePairs ==
    UNION {{<<t, f>> : f \in UNIQUE_FIELDS[t] \cap data_dict[t].cols} :
             t \in DOMAIN data_dict \cap DOMAIN UNIQUE_FIELDS}

\* The rows of t whose non-null f occurs in another row of t too.
InternalDuplicateRows(t, f) ==
    {data_dict[t].rows[i].idx :
        i \in {j \in DOMAIN data_dict[t].rows :
                 /\ data_dict[t].rows[j].v[f] # NULL
                 /\ \E k \in DOMAIN data_dict[t].rows \ {j} :
                       data_dict[t].rows[k].v[f] = data_dict[t].rows[j].v[f]}}

\* The values the Oracle returns for (t, f).
Committed(t, f) == {database[t][i][f] : i \in DOMAIN database[t]} \ {NULL}

ExternalConflictRows(t, f) ==
    {data_dict[t].rows[i].idx :
        i \in {j \in DOMAIN data_dict[t].rows :
                 /\ data_dict[t].rows[j].v[f] # NULL
                 /\ data_dict[t].rows[j].v[f] \in Committed(t, f)}}

\* The failing rows the uniqueness check reports for (t, f).
UniquenessIssues(t, f) ==
    {x \in the_checks["uniqueness_constraints"].issues : x.table = t /\ x.field = f}

UniquenessFailing(t, f) == UNION {x.failed_row_indices : x \in UniquenessIssues(t, f)}

\* C5: with the Oracle available, the uniqueness check's failing rows for a
\* unique (table, field) are its internal duplicates (all occurrences) together
\* with the rows whose value the Oracle holds; null values are never flagged and
\* duplicate_count is the number of failing rows.
C5_UniquenessWithOracle ==
    Audited =>
      \A p \in UniquePairs :
        (engine_up /\ p \notin failing_queries) =>
          /\ UniquenessFailing(p[1], p[2])
               = InternalDuplicateRows(p[1], p[2]) \cup ExternalConflictRows(p[1], p[2])
          /\ \A x \in UniquenessIssues(p[1], p[2]) :
                x.duplicate_count
                  = Cardinality(InternalDuplicateRows(p[1], p[2])
                                  \cup ExternalConflictRows(p[1], p[2]))
          /\ \A i \in DOMAIN data_dict[p[1]].rows :
                data_dict[p[1]].rows[i].v[p[2]] = NULL
                  => data_dict[p[1]].rows[i].idx \notin UniquenessFailing(p[1], p[2])

\* A field has internal duplicates and a field has a value the Oracle holds.
C5_Witness ==
    /\ pc = "cleaned"
    /\ engine_up
    /\ failing_queries = {}
    /\ \E x \in the_checks["uniqueness_constraints"].issues : x.internal_duplicates >= 2
    /\ \E x \in the_checks["uniqueness_constraints"].issues : x.database_conflicts >= 1

\* C6: when the Oracle connection cannot be established or the query of a
\* (table, field) raises, the check still returns its result and the failing
\* rows of that (table, field) are its internal duplicates; the failure of one
\* field's query leaves the result of every other field as it is with the
\* Oracle answering.
C6_OracleFailureDegrades ==
    /\ (pc = "error" => (DOMAIN data_dict = {} \/ run_all_raises(data_dict)))
    /\ Audited =>
         /\ the_checks["uniqueness_constraints"].status \in {"PASS", "FAIL"}
         /\ \A p \in UniquePairs :
              /\ (~engine_up \/ p \in failing_queries) =>
                    UniquenessFailing(p[1], p[2]) = InternalDuplicateRows(p[1], p[2])
              /\ (engine_up /\ p \notin failing_queries) =>
                    UniquenessFailing(p[1], p[2])
                      = InternalDuplicateRows(p[1], p[2])
                          \cup ExternalConflictRows(p[1], p[2])

\* The query of customer.email failed while the Oracle holds a phone number of
\* the snapshot: the phone number is still flagged, the e-mail address is not.
C6_Witness ==
    /\ pc = "cleaned"
    /\ failing_queries = {<<"customer", "email">>}
    /\ <<"customer", "email">> \in UniquePairs
    /\ <<"customer", "phone_number">> \in UniquePairs
    /\ ExternalConflictRows("customer", "email") # {}
    /\ UniquenessFailing("customer", "email") = {}
    /\ UniquenessFailing("customer", "phone_number") # {}

\* C7: whenever the external comparison was not performed for a unique
\* (table, field), because the Oracle is unavailable or the field's query
\* failed, the result records it as not performed.
C7_SkippedComparisonRecorded ==
    Audited =>
      \A p \in UniquePairs :
        (~engine_up \/ p \in failing_queries) =>
          /\ ~the_checks["uniqueness_constraints"].summary[p[1]].database_check_available
          /\ \A x \in UniquenessIssues(p[1], p[2]) : ~x.database_check_performed

\* C8: overall_status is FAIL iff some check has status FAIL and PASS otherwise
\* (a SKIP never changes it), and the three counts add up to total_checks.
C8_OverallStatus ==
    Audited =>
      LET summary == audit_results.audit_summary
          some_fail == \E n \in Range(CHECK_NAMES) : the_checks[n].status = "FAIL"
      IN  /\ DOMAIN the_checks = Range(CHECK_NAMES)
          /\ \A n \in Range(CHECK_NAMES) : the_checks[n].status \in {"PASS", "FAIL", "SKIP"}
          /\ summary.overall_status = (IF some_fail THEN "FAIL" ELSE "PASS")
          /\ summary.total_checks = Len(CHECK_NAMES)
          /\ summary.passed_checks + summary.failed_checks + summary.skipped_checks
               = summary.total_checks

\* Some checks are skipped, none fails, and the audit passes.
C8_Witness ==
    /\ pc = "cleaned"
    /\ audit_results.audit_summary.skipped_checks >= 1
    /\ audit_results.audit_summary.overall_status = "PASS"

\* C9: when one rule raises, the other seven still run to completion and the
\* report holds a result for every rule; the run is never aborted by it.
C9_RuleFailureIsolated ==
    (pc # "start" /\ DOMAIN data_dict # {}) =>
      /\ audit_results.audit_summary.overall_status \in {"PASS", "FAIL"}
      /\ DOMAIN the_checks = Range(CHECK_NAMES)

\* The transaction rows the daily-aggregate check reports through a violating
\* customer-day.
InViolatingCustomerDay(i) ==
    LET r == data_dict["transaction"].rows[i].v
    IN  \E x \in the_checks["daily_transaction_limit_auth"].issues :
          \E viol \in x.sample_violations :
            /\ to_date(r["created_at"]) = viol.transaction_date
            /\ r["currency"] = VND
            /\ r["status"] = Completed
            /\ r["transaction_type"] \in TRANSFER_TYPES
            /\ \E j \in DOMAIN data_dict["bank_account"].rows :
                  /\ data_dict["bank_account"].rows[j].v["account_id"] = r["account_id"]
                  /\ data_dict["bank_account"].rows[j].v["customer_id"] = viol.customer_id

\* Some check reports row i of table t as a violation.
Reported(t, i) ==
    \/ \E n \in Range(CHECK_NAMES) : data_dict[t].rows[i].idx \in FailedOf(the_checks[n], t)
    \/ /\ t = "transaction"
       /\ \E x \in the_checks["transaction_type_constraints"].issues :
            \E k \in DOMAIN x.sample_violations :
               /\ x.sample_violations[k].transaction_id
                      = data_dict[t].rows[i].v["transaction_id"]
               /\ x.sample_violations[k].transaction_type
                      = data_dict[t].rows[i].v["transaction_type"]
    \/ /\ t = "transaction"
       /\ InViolatingCustomerDay(i)

\* C10: every row written to the database is a row of the input snapshot that
\* no check reported as a violation.
C10_OnlyPassingRowsWritten ==
    pc = "saved" =>
      \A t \in TABLES : \A w \in DOMAIN written[t] :
        \E i \in DOMAIN data_dict[t].rows :
          /\ data_dict[t].rows[i].v = written[t][w]
          /\ ~Reported(t, i)

\* The rows of the input transaction table.
TransactionRows ==
    IF "transaction" \in DOMAIN data_dict THEN DOMAIN data_dict["transaction"].rows ELSE {}

TransactionRow(i) == data_dict["transaction"].rows[i]

\* Row i is a transfer or payment of at least 10,000,000 VND made without
\* PIN_OTP or PIN_OTP_Biometric.
HighValueWithoutStrongAuth(i) ==
    LET r == TransactionRow(i).v
    IN  /\ r["amount"] >= 10000000
        /\ r["currency"] = VND
        /\ r["transaction_type"] \in {Internal_Transfer, External_Transfer, Bill_Payment}
        /\ r["authentication_method"] \notin {PIN_OTP, PIN_OTP_Biometric}

DeviceRows ==
    IF "customer_device" \in DOMAIN data_dict
    THEN DOMAIN data_dict["customer_device"].rows ELSE {}

DeviceRow(i) == data_dict["customer_device"].rows[i]

DeviceFlagged == FailedOf(the_checks["device_verification_requirement"], "customer_device")

\* C12: the device check flags a customer_device row iff is_trusted is false
\* and status is Active; an untrusted row of another status and a trusted row
\* are never flagged; the status is FAIL iff a row is flagged.
C12_DeviceVerification ==
    (Audited /\ "customer_device" \in DOMAIN data_dict) =>
      LET res == the_checks["device_verification_requirement"]
      IN  /\ \A i \in DeviceRows :
                (DeviceRow(i).idx \in DeviceFlagged)
                  <=> (DeviceRow(i).v["is_trusted"] = IsFalse
                         /\ DeviceRow(i).v["status"] = Active)
          /\ DeviceFlagged \subseteq {DeviceRow(i).idx : i \in DeviceRows}
          /\ (res.status = "FAIL") <=> (DeviceFlagged # {})
          /\ res.status \in {"PASS", "FAIL"}

\* An untrusted active device is flagged next to an untrusted blocked device
\* that is not.
C12_Witness ==
    /\ Audited
    /\ \E i, j \in DeviceRows :
          /\ DeviceRow(i).v["is_trusted"] = IsFalse
          /\ DeviceRow(i).v["status"] = Active
          /\ DeviceRow(i).idx \in DeviceFlagged
          /\ DeviceRow(j).v["is_trusted"] = IsFalse
          /\ DeviceRow(j).v["status"] = Blocked
          /\ DeviceRow(j).idx \notin DeviceFlagged

AccountRows ==
    IF "bank_account" \in DOMAIN data_dict THEN DOMAIN data_dict["bank_account"].rows ELSE {}

AccountRow(j) == data_dict["bank_account"].rows[j]

\* No two bank_account rows carry the same account_id.
UniqueAccountIds ==
    \A j, k \in AccountRows :
        AccountRow(j).v["account_id"] = AccountRow(k).v["account_id"] => j = k

\* Transaction row i belongs to customer c through its bank account.
OwnedBy(i, c) ==
    \E j \in AccountRows :
        /\ AccountRow(j).v["account_id"] = TransactionRow(i).v["account_id"]
        /\ AccountRow(j).v["customer_id"] = c

\* Row i counts towards the daily total: a completed VND transfer or payment.
Qualifying(i) ==
    /\ TransactionRow(i).v["currency"] = VND
    /\ TransactionRow(i).v["status"] = Completed
    /\ TransactionRow(i).v["transaction_type"]
          \in {Internal_Transfer, External_Transfer, Bill_Payment}

\* The calendar day of row i (0 when the timestamp is null).
DayOf(i) == TransactionRow(i).v["created_at"] \div 100

OnCustomerDay(i, c, d) == OwnedBy(i, c) /\ DayOf(i) = d

DailyTotal(c, d) ==
    SumSeq([i \in 1..Len(data_dict["transaction"].rows) |->
               IF Qualifying(i) /\ OnCustomerDay(i, c, d)
               THEN TransactionRow(i).v["amount"] ELSE 0])

CustomerDays ==
    {cd \in {AccountRow(j).v["customer_id"] : j \in AccountRows}
              \X {DayOf(i) : i \in TransactionRows} :
        cd[1] # NULL /\ cd[2] # NULL}

ReportedCustomerDays ==
    {<<viol.customer_id, viol.transaction_date>> :
        viol \in UNION {issue.sample_violations :
                          issue \in the_checks["daily_transaction_limit_auth"].issues}}

DailyInputsPresent ==
    /\ Audited
    /\ {"transaction", "bank_account"} \subseteq DOMAIN data_dict
    /\ UniqueAccountIds

NullField(i, f) ==
    f \notin data_dict["transaction"].cols \/ TransactionRow(i).v[f] = NULL

\* Row i breaks the rule of its transaction type.
SubtypeViolating(i) ==
    LET ty == TransactionRow(i).v["transaction_type"]
    IN  \/ /\ ty = Internal_Transfer
           /\ (NullField(i, "recipient_account_number")
                  \/ ~NullField(i, "recipient_bank_code"))
        \/ /\ ty = External_Transfer
           /\ (NullField(i, "recipient_account_number")
                  \/ NullField(i, "recipient_bank_code"))
        \/ /\ ty = Bill_Payment
           /\ (~NullField(i, "recipient_account_number")
                  \/ ~NullField(i, "recipient_bank_code")
                  \/ NullField(i, "service_provider_code")
                  \/ NullField(i, "bill_number"))

SubtypeReports ==
    UNION {Range(issue.sample_violations) :
             issue \in the_checks["transaction_type_constraints"].issues}

\* The subtype check reports row i: a violation carries its id and type.
SubtypeReported(i) ==
    \E viol \in SubtypeReports :
        /\ viol.transaction_id = TransactionRow(i).v["transaction_id"]
        /\ viol.transaction_type = TransactionRow(i).v["transaction_type"]

\* C14: the subtype check reports a transaction row iff the row breaks the
\* rule of its type (Internal_Transfer, External_Transfer or Bill_Payment);
\* every reported violation belongs to such a row, rows of other types are
\* never reported, and the status is FAIL iff some row breaks its rule.
C14_TransactionTypeConstraints ==
    (Audited /\ "transaction" \in DOMAIN data_dict) =>
      LET res == the_checks["transaction_type_constraints"]
      IN  /\ \A i \in TransactionRows : SubtypeViolating(i) => SubtypeReported(i)
          /\ \A viol \in SubtypeReports :
                \E i \in TransactionRows :
                    /\ SubtypeViolating(i)
                    /\ viol.transaction_id = TransactionRow(i).v["transaction_id"]
                    /\ viol.transaction_type = TransactionRow(i).v["transaction_type"]
          /\ (res.status = "FAIL") <=> (\E i \in TransactionRows : SubtypeViolating(i))
          /\ res.status \in {"PASS", "FAIL"}

\* A bill payment that names a recipient account is reported while a valid
\* internal transfer and a valid external transfer of distinct ids are not.
C14_Witness ==
    /\ Audited
    /\ "transaction" \in DOMAIN data_dict
    /\ the_checks["transaction_type_constraints"].status = "FAIL"
    /\ \E i, j, k \in TransactionRows :
          /\ TransactionRow(i).v["transaction_type"] = Bill_Payment
          /\ ~NullField(i, "recipient_account_number")
          /\ SubtypeReported(i)
          /\ TransactionRow(j).v["transaction_type"] = Internal_Transfer
          /\ ~SubtypeReported(j)
          /\ TransactionRow(k).v["transaction_type"] = External_Transfer
          /\ ~SubtypeReported(k)

\* The checks that fill failed_rows.
RowTrackingChecks ==
    {"null_missing_values", "uniqueness_constraints", "format_validation",
     "foreign_key_integrity", "high_value_transaction_auth",
     "device_verification_requirement"}

\* The rows of table t some row-tracking check flags.
SixUnion(t) == UNION {FailedOf(the_checks[n], t) : n \in RowTrackingChecks}

\* Transaction row i of the snapshot is a row of the cleaned transaction table.
Survives(i) ==
    \E k \in DOMAIN cleaned_data["transaction"].rows :
        cleaned_data["transaction"].rows[k].v = TransactionRow(i).v

\* The account of transaction row i did not survive cleaning.
AccountGone(i) ==
    /\ "bank_account" \in DOMAIN cleaned_data
    /\ TransactionRow(i).v["account_id"] # NULL
    /\ \A k \in DOMAIN cleaned_data["bank_account"].rows :
          cleaned_data["bank_account"].rows[k].v["account_id"]
              # TransactionRow(i).v["account_id"]

\* Row i is reported by the daily-aggregate or the subtype check only.
ReportedOnlyUntracked(i) ==
    /\ TransactionRow(i).idx \notin SixUnion("transaction")
    /\ \/ SubtypeReported(i)
       \/ "bank_account" \in DOMAIN data_dict /\ InViolatingCustomerDay(i)

\* C15: the daily-aggregate and subtype checks leave failed_rows empty whatever
\* their status; step 1 of cleaning removes exactly the rows the other six
\* checks flag; a transaction only these two checks report is in the cleaned
\* table unless its account is gone.
C15_UntrackedChecksRemoveNothing ==
    Audited =>
      /\ DOMAIN the_checks["daily_transaction_limit_auth"].failed_rows = {}
      /\ DOMAIN the_checks["transaction_type_constraints"].failed_rows = {}
      /\ \A t \in DOMAIN data_dict :
            /\ Range(AggregateOf(t)) = SixUnion(t)
            /\ cleaning_summary[t].final_count
                 = Cardinality({i \in DOMAIN data_dict[t].rows :
                                  data_dict[t].rows[i].idx \notin SixUnion(t)})
      /\ \A i \in TransactionRows :
            ReportedOnlyUntracked(i) => (Survives(i) \/ AccountGone(i))

\* The daily check fails; one transaction of the violating customer-day is
\* removed because another check flags it, the other survives.
C15_Witness ==
    /\ Audited
    /\ the_checks["daily_transaction_limit_auth"].status = "FAIL"
    /\ \E i, j \in TransactionRows :
          /\ ReportedOnlyUntracked(i)
          /\ Survives(i)
          /\ InViolatingCustomerDay(j)
          /\ TransactionRow(j).idx \in SixUnion("transaction")
          /\ ~Survives(j)

\* Row i of table t is an orphan: under some declared relationship of child t
\* whose tables and fields the snapshot carries, its foreign key is non-null
\* and no parent row has that key.
Orphan(t, i) ==
    \E k \in 1..7 :
        LET rel == FOREIGN_KEY_RELATIONSHIPS[k]
        IN  /\ rel[1] = t
            /\ rel[3] \in DOMAIN data_dict
            /\ rel[2] \in data_dict[t].cols
            /\ rel[4] \in data_dict[rel[3]].cols
            /\ data_dict[t].rows[i].v[rel[2]] # NULL
            /\ \A j \in DOMAIN data_dict[rel[3]].rows :
                  data_dict[rel[3]].rows[j].v[rel[4]] # data_dict[t].rows[i].v[rel[2]]

FkFlagged(t) == FailedOf(the_checks["foreign_key_integrity"], t)

\* C16: the foreign-key check flags exactly the orphans of each table, taken
\* over all relationships of that child; a null foreign key is never flagged, a
\* relationship with an absent table or field contributes nothing and raises
\* nothing, and the status is FAIL iff some row is an orphan.
C16_ForeignKeyIntegrity ==
    Audited =>
      LET res == the_checks["foreign_key_integrity"]
      IN  /\ DOMAIN res.failed_rows \subseteq DOMAIN data_dict
          /\ \A t \in DOMAIN data_dict :
                FkFlagged(t) = {data_dict[t].rows[i].idx :
                                  i \in {j \in DOMAIN data_dict[t].rows : Orphan(t, j)}}
          /\ (res.status = "FAIL")
                <=> (\E t \in DOMAIN data_dict : \E i \in DOMAIN data_dict[t].rows : Orphan(t, i))
          /\ res.status \in {"PASS", "FAIL"}

\* A customer row has a null key: the rows of two child tables that reference
\* the lost key are flagged, the rows that reference the other customer are not.
C16_Witness ==
    /\ Audited
    /\ {"customer", "bank_account", "customer_device"} \subseteq DOMAIN data_dict
    /\ "customer_id" \in data_dict["customer"].cols
    /\ \E j \in DOMAIN data_dict["customer"].rows :
          data_dict["customer"].rows[j].v["customer_id"] = NULL
    /\ FkFlagged("bank_account") # {}
    /\ FkFlagged("customer_device") # {}
    /\ Cardinality(FkFlagged("bank_account")) < Len(data_dict["bank_account"].rows)
    /\ Cardinality(FkFlagged("customer_device")) < Len(data_dict["customer_device"].rows)

BusinessRules ==
    {"high_value_transaction_auth", "device_verification_requirement",
     "daily_transaction_limit_auth", "transaction_type_constraints"}

\* The tables a business rule reads.
RuleTables(n) ==
    CASE n = "device_verification_requirement" -> {"customer_device"}
      [] n = "daily_transaction_limit_auth" -> {"transaction", "bank_account"}
      [] OTHER -> {"transaction"}

\* The fields a business rule reads on every run, as <<table, field>>.
RuleFields(n) ==
    CASE n = "high_value_transaction_auth" ->
            {"transaction"} \X {"amount", "currency", "transaction_type",
                                "authentication_method"}
      [] n = "device_verification_requirement" ->
            {"customer_device"} \X {"is_trusted", "status"}
      [] n = "daily_transaction_limit_auth" ->
            ({"bank_account"} \X {"account_id", "customer_id"})
              \cup ({"transaction"} \X {"account_id", "currency", "status",
                                         "transaction_type", "created_at", "amount",
                                         "authentication_method"})
      [] OTHER -> {"transaction"} \X {"transaction_type"}

TableAbsent(n) == \E t \in RuleTables(n) : t \notin DOMAIN data_dict

FieldAbsent(n) ==
    /\ ~TableAbsent(n)
    /\ \E tf \in RuleFields(n) : tf[2] \notin data_dict[tf[1]].cols

\* The audit has run: it returned a report or ended in its error branch.
AuditReturned == pc \in {"cleaned", "error"}

\* The report holds a SKIP result of rule n with a reason and nothing else.
Skipped(n) ==
    /\ pc = "cleaned"
    /\ the_checks[n].status = "SKIP"
    /\ "reason" \in DOMAIN the_checks[n].summary
    /\ the_checks[n].issues = {}
    /\ DOMAIN the_checks[n].failed_rows = {}

\* Rule n raises on the snapshot.
RuleRaises(n) ==
    CASE n = "high_value_transaction_auth" -> raises_high_value_transaction_auth(data_dict)
      [] n = "device_verification_requirement" ->
            raises_device_verification_requirement(data_dict)
      [] n = "daily_transaction_limit_auth" -> raises_daily_transaction_limit_auth(data_dict)
      [] OTHER -> raises_transaction_type_constraints(data_dict)

KeptPositions(t) ==
    {i \in DOMAIN data_dict[t].rows : data_dict[t].rows[i].idx \notin Range(AggregateOf(t))}

\* The k-th kept position in the original order.
NthKept(t, k) ==
    CHOOSE p \in KeptPositions(t) : Cardinality({q \in KeptPositions(t) : q < p}) = k - 1

\* Table t after step 1 of the cleaning.
StepOne(t) == clean_table(data_dict[t], t, failed_rows_by_table)

\* C18: step 1 keeps exactly the rows whose identifier is not in the table's
\* failing set, in their original order, numbered 0..n-1; a table without an
\* entry in the failing-set map is kept whole. final_count is the number of
\* kept rows, and the customer table, child of no relationship, leaves the
\* cleaning as step 1 made it.
C18_DirectRemoval ==
    pc = "cleaned" =>
      /\ \A t \in DOMAIN data_dict :
            /\ Len(StepOne(t).rows) = Cardinality(KeptPositions(t))
            /\ \A k \in DOMAIN StepOne(t).rows :
                  /\ StepOne(t).rows[k].idx = k - 1
                  /\ StepOne(t).rows[k].v = data_dict[t].rows[NthKept(t, k)].v
            /\ t \notin DOMAIN failed_rows_by_table => StepOne(t) = data_dict[t]
            /\ cleaning_summary[t].final_count = Cardinality(KeptPositions(t))
      /\ "customer" \in DOMAIN data_dict => cleaned_data["customer"] = StepOne("customer")

\* The middle row of the transaction table is removed: the rows around it are
\* kept in order and renumbered 0 and 1.
C18_Witness ==
    /\ pc = "cleaned"
    /\ "transaction" \in DOMAIN data_dict
    /\ "transaction" \in DOMAIN failed_rows_by_table
    /\ KeptPositions("transaction") = {1, 3}
    /\ StepOne("transaction").rows[2].idx = 1
    /\ StepOne("transaction").rows[2].v = data_dict["transaction"].rows[3].v
    /\ cleaning_summary["transaction"].final_count = 2

\* Relationship k is applied: its tables and fields are in the snapshot.
Applied(k) ==
    LET rel == FOREIGN_KEY_RELATIONSHIPS[k]
    IN  /\ rel[1] \in DOMAIN data_dict
        /\ rel[3] \in DOMAIN data_dict
        /\ rel[2] \in data_dict[rel[1]].cols
        /\ rel[4] \in data_dict[rel[3]].cols

\* The non-null values of field f in the rows of df.
KeysOf(df, f) == {df.rows[j].v[f] : j \in DOMAIN df.rows} \ {NULL}

\* The positions of the step-1 rows of table t whose foreign keys are null or
\* among the keys of the parent tables given by parents.
CascadeKept(t, parents) ==
    {i \in DOMAIN StepOne(t).rows :
        \A k \in 1..7 :
            (FOREIGN_KEY_RELATIONSHIPS[k][1] = t /\ Applied(k)) =>
                \/ StepOne(t).rows[i].v[FOREIGN_KEY_RELATIONSHIPS[k][2]] = NULL
                \/ StepOne(t).rows[i].v[FOREIGN_KEY_RELATIONSHIPS[k][2]]
                      \in KeysOf(parents[FOREIGN_KEY_RELATIONSHIPS[k][3]],
                                 FOREIGN_KEY_RELATIONSHIPS[k][4])}

\* The k-th element of a set of positions.
NthOf(S, k) == CHOOSE p \in S : Cardinality({q \in S : q < p}) = k - 1

\* The cleaned table t is the step-1 table restricted to the positions S, in
\* order and renumbered.
CleanedIs(t, S) ==
    /\ Len(cleaned_data[t].rows) = Cardinality(S)
    /\ \A n \in DOMAIN cleaned_data[t].rows :
          /\ cleaned_data[t].rows[n].idx = n - 1
          /\ cleaned_data[t].rows[n].v = StepOne(t).rows[NthOf(S, n)].v

StepOneTables == [t \in DOMAIN data_dict |-> StepOne(t)]

\* Every relationship whose child is a table precedes every relationship
\* whose parent is that table.
ParentsCascadedFirst ==
    \A j, k \in 1..7 :
        FOREIGN_KEY_RELATIONSHIPS[j][1] = FOREIGN_KEY_RELATIONSHIPS[k][3] => j < k

\* C19 as stated: the cascade removes exactly the child rows whose foreign key
\* is non-null and absent from the parent's non-null keys as they stand after
\* step 1.
C19_CascadeAgainstStepOneKeys ==
    pc = "cleaned" =>
      \A t \in DOMAIN data_dict : CleanedIs(t, CascadeKept(t, StepOneTables))

\* C19: one pass in the declared order removes exactly the child rows whose
\* foreign key is non-null and absent from the parent's non-null keys as they
\* stand when the relationship is visited; the parent has then been through
\* its own relationships, so these are its keys in the cleaned tables. A row
\* with a null foreign key is not removed.
C19_CascadeAgainstSurvivingKeys ==
    /\ ParentsCascadedFirst
    /\ pc = "cleaned" =>
          \A t \in DOMAIN data_dict : CleanedIs(t, CascadeKept(t, cleaned_data))

\* A customer is removed in step 1; its account goes in the cascade and the
\* transactions of that account after it, although the account is a row of
\* the step-1 tables; a child row with a null foreign key stays.
C19_Witness ==
    /\ pc = "cleaned"
    /\ {"customer", "bank_account", "transaction", "customer_device"}
          \subseteq DOMAIN data_dict
    /\ "customer" \in DOMAIN failed_rows_by_table
    /\ Len(StepOne("bank_account").rows) > Len(cleaned_data["bank_account"].rows)
    /\ Len(StepOne("transaction").rows) > Len(cleaned_data["transaction"].rows)
    /\ \E i \in DOMAIN StepOne("transaction").rows :
          /\ StepOne("transaction").rows[i].v["account_id"]
                \in KeysOf(StepOne("bank_account"), "account_id")
          /\ StepOne("transaction").rows[i].v["account_id"]
                \notin KeysOf(cleaned_data["bank_account"], "account_id")
    /\ "customer_id" \in cleaned_data["customer_device"].cols
    /\ \E n \in DOMAIN cleaned_data["customer_device"].rows :
          cleaned_data["customer_device"].rows[n].v["customer_id"] = NULL

\* Under relationship k, row i of the child table is in no failing set and its
\* non-null foreign key is the key of a parent row that step 1 removes.
ReferencesRemovedParent(k, i) ==
    LET rel == FOREIGN_KEY_RELATIONSHIPS[k]
        child == data_dict[rel[1]].rows[i]
    IN  /\ child.idx \notin Range(AggregateOf(rel[1]))
        /\ child.v[rel[2]] # NULL
        /\ \E j \in DOMAIN data_dict[rel[3]].rows :
              /\ data_dict[rel[3]].rows[j].idx \in Range(AggregateOf(rel[3]))
              /\ data_dict[rel[3]].rows[j].v[rel[4]] = child.v[rel[2]]

\* No parent row that step 1 keeps carries the key row i refers to.
NoSurvivingTwin(k, i) ==
    LET rel == FOREIGN_KEY_RELATIONSHIPS[k]
    IN  \A j \in DOMAIN data_dict[rel[3]].rows :
            data_dict[rel[3]].rows[j].v[rel[4]] = data_dict[rel[1]].rows[i].v[rel[2]]
              => data_dict[rel[3]].rows[j].idx \in Range(AggregateOf(rel[3]))

\* Row i of table t is not a row of the cleaned table, and the summary of t
\* counts a cascade removal.
CascadedAway(t, i) ==
    /\ \A n \in DOMAIN cleaned_data[t].rows :
          cleaned_data[t].rows[n].v # data_dict[t].rows[i].v
    /\ cleaning_summary[t].final_count
          - cleaning_summary[t].final_count_after_fk_cleanup >= 1

\* C20 as stated: a child row in no failing set whose non-null foreign key
\* refers to a parent row removed by step 1 is absent from the cleaned table,
\* and the child's summary shows a cascade removal.
C20_OrphanedChildRemoved ==
    pc = "cleaned" =>
      \A k \in {j \in 1..7 : Applied(j)} :
        \A i \in DOMAIN data_dict[FOREIGN_KEY_RELATIONSHIPS[k][1]].rows :
            ReferencesRemovedParent(k, i)
              => CascadedAway(FOREIGN_KEY_RELATIONSHIPS[k][1], i)

\* C20: the same, for a child row whose key no parent row kept by step 1
\* carries.
C20_OrphanedChildWithoutTwinRemoved ==
    pc = "cleaned" =>
      \A k \in {j \in 1..7 : Applied(j)} :
        \A i \in DOMAIN data_dict[FOREIGN_KEY_RELATIONSHIPS[k][1]].rows :
            (ReferencesRemovedParent(k, i) /\ NoSurvivingTwin(k, i))
              => CascadedAway(FOREIGN_KEY_RELATIONSHIPS[k][1], i)

\* The required-field check removes a customer and the face_template row of
\* that customer, itself in no failing set, is removed in the cascade.
C20_Witness ==
    /\ Audited
    /\ Applied(1)
    /\ FailedOf(the_checks["null_missing_values"], "customer") # {}
    /\ "face_template" \notin DOMAIN failed_rows_by_table
    /\ \E i \in DOMAIN data_dict["face_template"].rows :
          /\ ReferencesRemovedParent(1, i)
          /\ NoSurvivingTwin(1, i)
          /\ CascadedAway("face_template", i)
    /\ cleaning_summary["face_template"].removed_count = 0
    /\ cleaning_summary["face_template"].total_removed = 1

\* Identifier x of the failing set of table t is the identifier of no row.
Stray(t, x) ==
    t \notin DOMAIN data_dict \/ \A i \in DOMAIN data_dict[t].rows : data_dict[t].rows[i].idx # x

\* The failing-set map without the identifiers that name no row.
WithoutStrays ==
    [t \in DOMAIN failed_rows_by_table |->
        SelectSeq(failed_rows_by_table[t], LAMBDA x : ~Stray(t, x))]

HasStray ==
    \E t \in DOMAIN failed_rows_by_table :
        \E k \in DOMAIN failed_rows_by_table[t] : Stray(t, failed_rows_by_table[t][k])

\* C21: an identifier of the failing set that names no row of its table is
\* ignored: the cleaning returns the tables it returns for the failing-set map
\* without that identifier, and every row it leaves out is named by the map or
\* removed by the cascade.
C21_StrayIdentifierIgnored ==
    pc = "cleaned" =>
      /\ HasStray =>
            cleaned_data
              = clean_dataframes_by_failed_rows(validate_data_structure(data_dict),
                                                WithoutStrays).cleaned_data
      /\ \A t \in DOMAIN data_dict :
            Len(StepOne(t).rows)
              = Len(data_dict[t].rows)
                  - Cardinality({x \in Range(AggregateOf(t)) : ~Stray(t, x)})

\* The failing set of customer holds an identifier past the end of the table:
\* both customer rows are kept.
C21_Witness ==
    /\ pc = "cleaned"
    /\ "customer" \in DOMAIN data_dict
    /\ HasStray
    /\ Len(data_dict["customer"].rows) = 2
    /\ Len(cleaned_data["customer"].rows) = 2
    /\ Stray("customer", 2)
    /\ 2 \in Range(AggregateOf("customer"))

SequentialChecks == run_checks(data_dict, engine_up, failing_queries, database)

C24_SummaryConsistent ==
    pc = "cleaned" =>
        \A t \in DOMAIN cleaning_summary :
            LET s == cleaning_summary[t]
                cascade_removed == s.final_count - s.final_count_after_fk_cleanup
            IN  /\ s.original_count = len(data_dict[t])
                /\ s.original_count
                      = s.removed_count + cascade_removed + s.final_count_after_fk_cleanup
                /\ s.removed_count = len(data_dict[t]) - len(StepOne(t))
                /\ s.total_removed = s.original_count - s.final_count_after_fk_cleanup
                /\ s.final_count_after_fk_cleanup = len(cleaned_data[t])

\* The last attempt of load_data_task ran save_data_only and the save failed.
SaveFailedInDag == pc = "dag" /\ try_number["load_data_task"] > 0 /\ save_status = "FAILED"

\* C25: when the database save fails, the attempt of load_data_task fails: the
\* task is never in state success after a failed save, and
\* evaluate_results_task starts only after the retries of load_data_task.
C25_FailedSaveFailsTask ==
    SaveFailedInDag =>
        /\ task_state["load_data_task"] # "success"
        /\ try_number["evaluate_results_task"] > 0 =>
              try_number["load_data_task"] > 1

\* evaluate_results_task has pushed its evaluation.
Evaluated == <<"evaluate_results_task", "evaluation">> \in DOMAIN xcom

\* Passed checks over total checks of the audit the evaluation was made of, in
\* hundredths of a percent.
PassRateOfChecks ==
    LET checks == xcom[<<"quality_audit_task", "audit_results">>].check_results
    IN  (Cardinality({n \in DOMAIN checks : checks[n].status = "PASS"}) * 10000)
            \div Cardinality(DOMAIN checks)

\* C26: whatever the statuses of the checks and the load status, the
\* evaluation has alert_level critical when the pass rate is below 60%, and
\* warning or critical when it is below 80%.
C26_AlertLevelFollowsPassRate ==
    Evaluated =>
        LET alert_level == xcom[<<"evaluate_results_task", "evaluation">>].alert_level
        IN  /\ PassRateOfChecks < 6000 => alert_level = "critical"
            /\ PassRateOfChecks < 8000 => alert_level \in {"warning", "critical"}

\* Every row of table t of the cleaned data has been written.
WrittenWhole(t) == written[t] = map_columns_to_database(cleaned_data[t], t)

\* The tables of the cleaned data the save has to write, in insertion order.
TablesToSave == SelectSeq(table_order, LAMBDA t : t \in DOMAIN cleaned_data)

InvalidPositions(e) ==
    {i \in DOMAIN data_dict[e[1]].rows :
        LET value == data_dict[e[1]].rows[i].v[e[2]]
        IN  /\ value # NULL
            /\ \A p \in e[3] \cap DOMAIN REGEX_PATTERNS : value \notin REGEX_PATTERNS[p]}

\* The format-checked fields the snapshot has.
FormatChecked ==
    {e \in field_patterns : e[1] \in DOMAIN data_dict /\ e[2] \in data_dict[e[1]].cols}

\* C28: the failing rows of the format check are all the rows whose non-null
\* value matches none of the patterns of its field, a null is never flagged,
\* and the issue of a field carries the values of the first invalid rows in
\* row order, five at most, beside the count and the identifiers of all of
\* them.
C28_FormatFailingSetNotSampled ==
    pc = "format_checked" =>
        LET result == the_checks["format_validation"]
        IN  /\ \A t \in DOMAIN data_dict :
                  FailedOf(result, t)
                    = UNION {{data_dict[t].rows[i].idx : i \in InvalidPositions(e)} :
                                e \in {x \in FormatChecked : x[1] = t}}
            /\ result.status = "FAIL" <=> \E e \in FormatChecked : InvalidPositions(e) # {}
            /\ \A e \in FormatChecked :
                  LET invalid == sorted(InvalidPositions(e))
                      reports == {x \in result.issues : x.table = e[1] /\ x.field = e[2]}
                  IN  /\ Cardinality(reports) = IF invalid = <<>> THEN 0 ELSE 1
                      /\ \A x \in reports :
                            /\ x.invalid_count = Len(invalid)
                            /\ x.failed_row_indices
                                  = {data_dict[e[1]].rows[i].idx : i \in Range(invalid)}
                            /\ Len(x.sample_invalid)
                                  = (IF Len(invalid) < 5 THEN Len(invalid) ELSE 5)
                            /\ \A k \in DOMAIN x.sample_invalid :
                                  x.sample_invalid[k]
                                    = data_dict[e[1]].rows[invalid[k]].v[e[2]]

\* Six malformed phone numbers and no other: all six rows fail, five values
\* are sampled, and the sixth value is not among them.
C28_Witness ==
    /\ pc = "format_checked"
    /\ "customer" \in DOMAIN data_dict
    /\ "phone_number" \in data_dict["customer"].cols
    /\ Len(data_dict["customer"].rows) = 6
    /\ \A i \in 1..5 : data_dict["customer"].rows[i].v["phone_number"] = 18
    /\ data_dict["customer"].rows[6].v["phone_number"] = 19
    /\ Cardinality(FailedOf(the_checks["format_validation"], "customer")) = 6
    /\ \E x \in the_checks["format_validation"].issues :
          Len(x.sample_invalid) = 5 /\ 19 \notin Range(x.sample_invalid)

\* The number of transaction rows that break the rule of their type.
ViolatingRowCount == Cardinality({i \in TransactionRows : SubtypeViolating(i)})

\* C29: violation_count of the subtype check and constraint_violations of its
\* summary are the number of transaction rows that break the rule of their
\* type, each such row counted once.
C29_ViolationCountCountsRows ==
    (Audited /\ "transaction" \in DOMAIN data_dict) =>
        LET res == the_checks["transaction_type_constraints"]
        IN  /\ res.summary.constraint_violations = ViolatingRowCount
            /\ \A issue \in res.issues : issue.violation_count = ViolatingRowCount

\* The bill payments that break both parts of their rule: a recipient field is
\* set, and the service provider code or the bill number is missing.
BillPaymentsBreakingBoth ==
    {i \in TransactionRows :
        /\ TransactionRow(i).v["transaction_type"] = Bill_Payment
        /\ (~NullField(i, "recipient_account_number") \/ ~NullField(i, "recipient_bank_code"))
        /\ (NullField(i, "service_provider_code") \/ NullField(i, "bill_number"))}

\* C29 (amended): violation_count and constraint_violations count the recorded
\* violations: one for every row that breaks the rule of its type, and one
\* more for every bill payment that breaks both parts of its rule.
C29_ViolationCountCountsViolations ==
    (Audited /\ "transaction" \in DOMAIN data_dict) =>
        LET res == the_checks["transaction_type_constraints"]
            violations == ViolatingRowCount + Cardinality(BillPaymentsBreakingBoth)
        IN  /\ res.summary.constraint_violations = violations
            /\ \A issue \in res.issues : issue.violation_count = violations
            /\ res.issues = {} <=> violations = 0

\* One bill payment with a recipient account and no service provider code is
\* the only row that breaks its rule, and two violations are counted.
C29_Witness ==
    /\ Audited
    /\ "transaction" \in DOMAIN data_dict
    /\ ViolatingRowCount = 1
    /\ Cardinality(BillPaymentsBreakingBoth) = 1
    /\ the_checks["transaction_type_constraints"].summary.constraint_violations = 2

\* run_audit_with_reports has been called, by the task or directly.
AuditCalled == pc \in {"error", "cleaned", "saved"} \/ try_number["quality_audit_task"] > 0

\* The call ends in the except branch: the input is empty or a rule raises.
AuditFails ==
    DOMAIN data_dict = {} \/ run_all_raises(validate_data_structure(data_dict))

\* C30: a call of run_audit_with_reports on an empty input or with a raising
\* rule returns the result with overall_status ERROR, and a run with that
\* result writes nothing: in the DAG every attempt of quality_audit_task
\* fails, nothing is pushed and load_data_task is never started; in
\* standalone mode the run ends without a call of save_data_only.
C30_ErrorResultWritesNothing ==
    /\ AuditCalled => (audit_results = ErrorResult <=> AuditFails)
    /\ audit_results = ErrorResult =>
          /\ audit_results.audit_summary.overall_status = "ERROR"
          /\ written = NothingWritten
          /\ save_status = ""
          /\ \E config \in OracleConfigs : database = config[3]
          /\ pc \in {"dag", "error"}
          /\ pc = "dag" =>
                /\ task_state["quality_audit_task"] \in {"up_for_retry", "failed"}
                /\ task_state["load_data_task"] \in {"none", "upstream_failed"}
                /\ task_state["evaluate_results_task"] \in {"none", "upstream_failed"}
                /\ try_number["load_data_task"] = 0
                /\ xcom = EmptyMap

\* The three attempts of quality_audit_task on an empty input have failed and
\* load_data_task is marked upstream_failed over the rows of an earlier run.
C30_Witness ==
    /\ pc = "dag"
    /\ DOMAIN data_dict = {}
    /\ audit_results = ErrorResult
    /\ try_number["quality_audit_task"] = 3
    /\ task_state["quality_audit_task"] = "failed"
    /\ task_state["load_data_task"] = "upstream_failed"
    /\ database = PriorDB
    /\ written = NothingWritten

====
